---- MODULE Spec2Model ----
(***************************************************************************)
(* A model of the git side of the polyglot code scanner:                   *)
(*   - GitUserDictionary        (src/src/git_user_dictionary.rs)           *)
(*   - GitFileFutureRegistry    (src/src/git_file_future.rs)               *)
(*   - GitLogIterator           (src/src/git_logger.rs)                    *)
(*   - GitFileHistory::new      (src/src/git_file_history.rs)              *)
(*   - GitHistories / GitCalculator (src/src/git.rs)                       *)
(*                                                                         *)
(* Conventions.  Option<T> is a sequence of length at most one: None is    *)
(* <<>>, Some(x) is <<x>>.  A String is a sequence of character codes, so  *)
(* that ordering and case conversion are computed, not assumed.  A PathBuf *)
(* is an opaque string.  A HashMap is a function on the set of its keys.   *)
(* A commit id (Oid) is the position of the commit in the revwalk: the     *)
(* walk is topological, newest first, so every parent of commit k has an   *)
(* id larger than k.                                                       *)
(***************************************************************************)
EXTENDS Integers, Sequences, FiniteSets, TLC

VARIABLES
    config,           \* GitLogConfig {include_merges, earliest_time}
    revwalk,          \* the Revwalk: commits walked, parents still to walk, time of the last commit
    pc,               \* position inside GitFileHistory::new / GitCalculator
    log_entries,      \* Vec<Result<GitLogEntry, Error>> collected from the iterator
    rev_changes,      \* GitFileFutureRegistry.rev_changes
    attr_pos,         \* entries of log_entries the second pass has processed
    history_by_file,  \* GitFileHistory.history_by_file
    last_commit,      \* GitFileHistory.last_commit
    next_id,          \* GitUserDictionary.next_id
    lower_users,      \* GitUserDictionary.lower_users
    users,            \* GitUserDictionary.users
    calls,            \* the register calls made on the dictionary, with their results
    git_data,         \* the GitData emitted per file by GitCalculator::calculate
    coupling,         \* the state of gather_coupling: tree, timestamps, buckets
    cli,              \* the state of main: flags, position, output file
    flare             \* a FlareTreeNode tree being built, and the walk that builds one

vars == <<config, revwalk, pc, log_entries, rev_changes, attr_pos,
          history_by_file, last_commit, next_id, lower_users, users, calls,
          git_data, coupling, cli, flare>>

post_vars == <<coupling, cli, flare>>
dict_vars == <<next_id, lower_users, users, calls>>
hist_vars_but_pc == <<config, revwalk, log_entries, rev_changes, attr_pos,
                      history_by_file, last_commit>>
hist_vars == <<config, revwalk, pc, log_entries, rev_changes, attr_pos,
               history_by_file, last_commit>>

(***************************************************************************)
(* Bounds of the model.                                                    *)
(***************************************************************************)
MaxCommits == 3       \* commits in the repository of the registry specification
MaxCalls == 3         \* register calls in the dictionary specification

(***************************************************************************)
(* Generic helpers.                                                        *)
(***************************************************************************)
None == <<>>
Some(x) == <<x>>
EmptyMap == [x \in {} |-> x]

Max(S) == CHOOSE x \in S : \A y \in S : y <= x
Min(S) == CHOOSE x \in S : \A y \in S : x <= y

Range(s) == {s[i] : i \in DOMAIN s}

RECURSIVE Flatten(_)
Flatten(ss) == IF ss = <<>> THEN <<>> ELSE Head(ss) \o Flatten(Tail(ss))

(***************************************************************************)
(* git_logger.rs: User, FileChange, GitLogEntry.                           *)
(***************************************************************************)
User_new(name, email) == [name |-> name, email |-> email]

FileChange(file, old_file, change, lines_added, lines_deleted) ==
    [file |-> file, old_file |-> old_file, change |-> change,
     lines_added |-> lines_added, lines_deleted |-> lines_deleted]

\* A log reader that never reports the changes of a merge commit.
commit_file_changes_merges_dropped(parents, diffs, cfg) ==
    IF Len(parents) = 0 THEN diffs[1]
    ELSE IF Len(parents) > 1 THEN <<>>
    ELSE Flatten(diffs)

\* commit_file_changes: diffs holds what scan_diffs returns, one diff per
\* parent, or the single diff against the empty tree for a root commit.
commit_file_changes(parents, diffs, cfg) ==
    IF Len(parents) = 0 THEN diffs[1]
    ELSE IF Len(parents) > 1 /\ ~cfg.include_merges THEN <<>>
    ELSE Flatten(diffs)

\* summarise_commit, for an object that is a commit and can be read.
summarise_commit(oid, parents, diffs, committer, commit_time, author, author_time, co_authors, cfg) ==
    [ok |-> TRUE, id |-> oid, parents |-> parents,
     committer |-> committer, commit_time |-> commit_time,
     author |-> author, author_time |-> author_time,
     co_authors |-> co_authors,
     file_changes |-> commit_file_changes(parents, diffs, cfg)]

\* summarise_commit failing: the item is Err(e) and carries no commit data.
ErrEntry(oid) == [ok |-> FALSE, id |-> oid]

(***************************************************************************)
(* git_user_dictionary.rs: the user dictionary.                            *)
(***************************************************************************)
\* str::to_lowercase on the letters of the model: A..Z become a..z.
to_lowercase(str) ==
    [i \in DOMAIN str |-> IF str[i] \in 65..90 THEN str[i] + 32 ELSE str[i]]

\* User::as_lower_case: both fields lower-cased, an absent field stays absent.
as_lower_case(user) ==
    [name |-> IF user.name = None THEN None
              ELSE Some(to_lowercase(user.name[1])),
     email |-> IF user.email = None THEN None
               ELSE Some(to_lowercase(user.email[1]))]

\* A dictionary keyed by the user as given.
lookup_key_as_given(user) == user

\* let lower_user = user.as_lower_case();
lookup_key(user) == as_lower_case(user)

\* A dictionary that keeps the lower-cased user for display.
stored_user_lowered(user, lower_user) == lower_user

\* self.users.push(user.clone())
stored_user(user, lower_user) == user

\* GitUserDictionary::register on dictionary d: the id returned and the
\* dictionary afterwards.
GitUserDictionary_register(d, user) ==
    LET lower_user == lookup_key(user)
    IN IF lower_user \in DOMAIN d.lower_users
       THEN [id |-> d.lower_users[lower_user], dict |-> d]
       ELSE [id |-> d.next_id,
             dict |-> [next_id |-> d.next_id + 1,
                       lower_users |->
                           [u \in DOMAIN d.lower_users \cup {lower_user} |->
                               IF u = lower_user THEN d.next_id
                               ELSE d.lower_users[u]],
                       users |-> Append(d.users, stored_user(user, lower_user))]]

\* impl Serialize for GitUserDictionary: a sequence of UserKey {id, user}.
GitUserDictionary_serialize(d) ==
    [i \in 1..Len(d.users) |-> [id |-> i - 1, user |-> d.users[i]]]

\* The dictionary held in the variables.
Dictionary == [next_id |-> next_id, lower_users |-> lower_users, users |-> users]

(***************************************************************************)
(* git_file_future.rs: the rename registry.                                *)
(***************************************************************************)
Renamed(new_name) == [kind |-> "Renamed", to |-> new_name]
Deleted == [kind |-> "Deleted", to |-> ""]

RevChange_new == [files |-> EmptyMap, children |-> <<>>]

\* HashMap::entry(k).or_insert_with(RevChange::new)
or_insert(rc, k) ==
    IF k \in DOMAIN rc THEN rc
    ELSE [x \in DOMAIN rc \cup {k} |-> IF x = k THEN RevChange_new ELSE rc[x]]

\* HashMap::extend with a slice of (key, value): later pairs overwrite.
extend(files, file_changes) ==
    LET keys == {file_changes[i][1] : i \in DOMAIN file_changes}
        last(p) == Max({i \in DOMAIN file_changes : file_changes[i][1] = p})
    IN [p \in DOMAIN files \cup keys |->
            IF p \in keys THEN file_changes[last(p)][2] ELSE files[p]]

\* A parent loop that adds the child only to parents already registered.
RECURSIVE push_children_registered_only(_, _, _)
push_children_registered_only(rc, id, parent_ids) ==
    IF parent_ids = <<>> THEN rc
    ELSE IF Head(parent_ids) \in DOMAIN rc
    THEN push_children_registered_only(
             [rc EXCEPT ![Head(parent_ids)].children = Append(@, id)],
             id, Tail(parent_ids))
    ELSE push_children_registered_only(rc, id, Tail(parent_ids))

RECURSIVE push_children(_, _, _)
push_children(rc, id, parent_ids) ==
    IF parent_ids = <<>> THEN rc
    ELSE LET with_parent == or_insert(rc, Head(parent_ids))
             pushed == [with_parent EXCEPT ![Head(parent_ids)].children =
                            Append(@, id)]
         IN push_children(pushed, id, Tail(parent_ids))

register(rc, id, parent_ids, file_changes) ==
    LET with_entry == or_insert(rc, id)
        extended == [with_entry EXCEPT ![id].files = extend(@, file_changes)]
    IN push_children(extended, id, parent_ids)

\* current_change.files.get(current_name)
files_get(files, name) ==
    IF name \in DOMAIN files THEN Some(files[name]) ELSE None

\* A registry that never reports a deletion.
is_deleted_never(change) == FALSE

\* The match of final_name: Some(Deleted()) => return None.
is_deleted(change) == change # None /\ change[1].kind = "Deleted"

\* A registry that looks a rename up and keeps the old name.
renamed_name_kept(change, current_name) == current_name

\* The match of final_name: Some(Renamed(new_name)) => current_name = new_name.
renamed_name(change, current_name) ==
    IF change # None /\ change[1].kind = "Renamed" THEN change[1].to
    ELSE current_name

\* A registry that follows the child registered last.
next_ref_last(children) ==
    IF Len(children) > 0 THEN Some(children[Len(children)]) ELSE None

\* The child final_name moves to: children.get(0).
next_ref(children) == IF Len(children) > 0 THEN Some(children[1]) ELSE None

\* final_name: panic is the unwrap() of a missing registry entry.
RECURSIVE final_name_loop(_, _, _)
final_name_loop(rc, current_ref, current_name) ==
    IF current_ref \notin DOMAIN rc
    THEN [panic |-> TRUE, name |-> None]
    ELSE LET current_change == rc[current_ref]
             change == files_get(current_change.files, current_name)
             first_child == next_ref(current_change.children)
         IN IF is_deleted(change)
            THEN [panic |-> FALSE, name |-> None]
            ELSE LET new_name == renamed_name(change, current_name)
                 IN IF first_child # None
                    THEN final_name_loop(rc, first_child[1], new_name)
                    ELSE [panic |-> FALSE, name |-> Some(new_name)]

final_name(rc, ref_id, file) == final_name_loop(rc, ref_id, file)

\* register_file_futures: the (old name, change) pairs of an entry.
RECURSIVE file_futures(_)
file_futures(file_changes) ==
    IF file_changes = <<>> THEN <<>>
    ELSE LET fc == Head(file_changes)
             rest == file_futures(Tail(file_changes))
         IN IF fc.change = "Rename"
            THEN <<<<fc.old_file[1], Renamed(fc.file)>>>> \o rest
            ELSE IF fc.change = "Delete"
            THEN <<<<fc.file, Deleted>>>> \o rest
            ELSE rest

register_file_futures(rc, entry) ==
    register(rc, entry.id, entry.parents, file_futures(entry.file_changes))

(***************************************************************************)
(* git_file_history.rs: the per-file history.                              *)
(***************************************************************************)
FileHistoryEntry_from(entry, file_change) ==
    [id |-> entry.id,
     committer |-> entry.committer, commit_time |-> entry.commit_time,
     author |-> entry.author, author_time |-> entry.author_time,
     co_authors |-> entry.co_authors,
     change |-> file_change.change,
     lines_added |-> file_change.lines_added,
     lines_deleted |-> file_change.lines_deleted]

\* A history that remembers the time of the entry it saw last.
newer_commit_last_seen(commit_time, last) == commit_time

\* if commit_time > last_commit { last_commit = commit_time; }
newer_commit(commit_time, last) ==
    IF commit_time > last THEN commit_time ELSE last

\* history_by_file.entry(filename).or_insert_with(Vec::new).push(new_entry)
push_history(hist, filename, new_entry) ==
    [f \in DOMAIN hist \cup {filename} |->
        IF f = filename
        THEN (IF f \in DOMAIN hist THEN hist[f] ELSE <<>>) \o <<new_entry>>
        ELSE hist[f]]

\* A second pass that keys a file change by the name it has in its commit.
stored_under_commit_name(rc, entry, file_change) == Some(file_change.file)

\* What the second pass does with one file change of one entry: the file
\* name the change is stored under, or None when it is not stored.
stored_under(rc, entry, file_change) ==
    final_name(rc, entry.id, file_change.file).name

\* The inner loop of GitFileHistory::new over the file changes of one entry.
RECURSIVE attribute_changes(_, _, _, _)
attribute_changes(hist, rc, entry, file_changes) ==
    IF file_changes = <<>> THEN [panic |-> FALSE, hist |-> hist]
    ELSE LET file_change == Head(file_changes)
             looked_up == final_name(rc, entry.id, file_change.file)
             final_filename == stored_under(rc, entry, file_change)
         IN IF looked_up.panic THEN [panic |-> TRUE, hist |-> hist]
            ELSE IF final_filename # None
            THEN attribute_changes(
                    push_history(hist, final_filename[1],
                                 FileHistoryEntry_from(entry, file_change)),
                    rc, entry, Tail(file_changes))
            ELSE attribute_changes(hist, rc, entry, Tail(file_changes))

(***************************************************************************)
(* The revwalk and the inputs a specification draws a commit from.         *)
(* An input record inp has: max_commits, diffs (the diffs scan_diffs may   *)
(* return against one parent), times (pairs of author time and commit      *)
(* time) and people (triples of author, committer and co-author list).     *)
(***************************************************************************)
ParentChoices(oid, max_commits) ==
    {<<>>}
    \cup {<<p>> : p \in (oid + 1)..max_commits}
    \cup {<<p, q>> : p, q \in (oid + 1)..max_commits}

\* The ids are walk positions: what is still to walk after oid starts at the
\* next position, and a commit has no parent twice.  The parents come in
\* the order of the commit, whichever of them the walk reaches first.
WalkOrdered(oid, parents, pending) ==
    /\ Cardinality(Range(parents)) = Len(parents)
    /\ IF pending = {} THEN TRUE ELSE Min(pending) = oid + 1

\* A diff against the empty tree (a root commit) holds additions only.
DiffChoices(parents, diffs) ==
    IF Len(parents) = 0
    THEN {<<d>> : d \in {x \in diffs : \A i \in DOMAIN x : x[i].change = "Add"}}
    ELSE IF Len(parents) = 1 THEN {<<d>> : d \in diffs}
    ELSE {<<d, e>> : d, e \in diffs}

RevwalkHasNext == revwalk.walked = 0 \/ revwalk.walked + 1 \in revwalk.pending

\* A test of the since-time that stops at a commit made at that time.
since_reached_after(commit_time, earliest_time) == commit_time > earliest_time

\* c.commit_time >= self.git_log.config.earliest_time
since_reached(commit_time, earliest_time) == commit_time >= earliest_time

(***************************************************************************)
(* GitLogIterator::next, one item at a time, as collect() drives it.       *)
(***************************************************************************)
\* The revwalk yields commit oid and summarise_commit reads it: the entry
\* is registered and returned, or it is older than earliest_time and the
\* iterator returns None.
Yield(oid, parents, pending, diffs, times, people) ==
    LET c == summarise_commit(oid, parents, diffs, people[2],
                              times[2], people[1], times[1],
                              people[3], config)
    IN /\ revwalk' = [walked |-> oid, pending |-> pending,
                       last_time |-> Some(c.commit_time)]
       /\ IF since_reached(c.commit_time, config.earliest_time)
          THEN /\ rev_changes' = register_file_futures(rev_changes, c)
               /\ log_entries' = Append(log_entries, c)
               /\ pc' = pc
          ELSE \* short circuit: the iterator is finished
               /\ pc' = "attributing"
               /\ UNCHANGED <<rev_changes, log_entries>>
       /\ UNCHANGED <<config, attr_pos, history_by_file, last_commit,
                      dict_vars, git_data, post_vars>>

\* The revwalk yields a commit summarise_commit can read.
IteratorNext(inp) ==
    /\ pc = "iterating"
    /\ RevwalkHasNext
    /\ \E parents \in ParentChoices(revwalk.walked + 1, inp.max_commits) :
       LET oid == revwalk.walked + 1
           pending == (revwalk.pending \cup Range(parents)) \ {oid}
       IN /\ WalkOrdered(oid, parents, pending)
          /\ \E diffs \in DiffChoices(parents, inp.diffs),
                times \in inp.times,
                people \in inp.people :
             Yield(oid, parents, pending, diffs, times, people)

\* The revwalk yields an object summarise_commit fails on.  An object or
\* a commit tree that cannot be read is returned with '?': Some(Err(e)),
\* and collect() goes on.  A parent tree that cannot be read or a diff
\* that fails is an expect() in commit_file_changes: next() panics and
\* GitFileHistory::new unwinds with it.
IteratorErr(inp) ==
    /\ pc = "iterating"
    /\ RevwalkHasNext
    /\ \E parents \in ParentChoices(revwalk.walked + 1, inp.max_commits) :
       LET oid == revwalk.walked + 1
           pending == (revwalk.pending \cup Range(parents)) \ {oid}
       IN /\ WalkOrdered(oid, parents, pending)
          /\ revwalk' = [walked |-> oid, pending |-> pending,
                          last_time |-> None]
          /\ \E panics \in BOOLEAN :
                IF panics
                THEN /\ pc' = "panic"
                     /\ log_entries' = log_entries
                ELSE /\ pc' = pc
                     /\ log_entries' = Append(log_entries, ErrEntry(oid))
    /\ UNCHANGED <<config, rev_changes, attr_pos, history_by_file,
                   last_commit, dict_vars, git_data, post_vars>>

\* log.iterator() fails, as push_head does on a repository without
\* commits: GitFileHistory::new returns the error before any entry.
IteratorFails ==
    /\ pc = "iterating"
    /\ revwalk.walked = 0
    /\ log_entries = <<>>
    /\ pc' = "failed"
    /\ UNCHANGED <<config, revwalk, log_entries, rev_changes, attr_pos,
                   history_by_file, last_commit, dict_vars, git_data, post_vars>>

\* The revwalk is exhausted: next() returns None and collect() ends.
IteratorEnd ==
    /\ pc = "iterating"
    /\ ~RevwalkHasNext
    /\ pc' = "attributing"
    /\ UNCHANGED <<config, revwalk, log_entries, rev_changes, attr_pos,
                   history_by_file, last_commit, dict_vars, git_data, post_vars>>

\* An attribution that starts while the iterator is still yielding.
log_collected_or_not(position) == position \in {"iterating", "attributing"}

\* let log_entries: Vec<Result<GitLogEntry, Error>> = log_iterator.collect()
\* has returned: the loop over log_entries runs after it.
log_collected(position) == position = "attributing"

(***************************************************************************)
(* GitFileHistory::new, second pass: one entry of log_entries per step.    *)
(***************************************************************************)
Attribute ==
    /\ log_collected(pc)
    /\ attr_pos < Len(log_entries)
    /\ LET entry == log_entries[attr_pos + 1]
       IN IF entry.ok
          THEN LET done == attribute_changes(history_by_file, rev_changes,
                                             entry, entry.file_changes)
               IN /\ last_commit' = newer_commit(entry.commit_time, last_commit)
                  /\ history_by_file' = done.hist
                  /\ pc' = IF done.panic THEN "panic" ELSE pc
          ELSE \* warn!("Ignoring invalid git log entry")
               UNCHANGED <<last_commit, history_by_file, pc>>
    /\ attr_pos' = attr_pos + 1
    /\ UNCHANGED <<config, revwalk, log_entries, rev_changes, dict_vars,
                   git_data, post_vars>>

\* Ok(GitFileHistory {workdir, history_by_file, last_commit})
HistoryBuilt ==
    /\ pc = "attributing"
    /\ attr_pos = Len(log_entries)
    /\ pc' = "built"
    /\ UNCHANGED <<config, revwalk, log_entries, rev_changes, attr_pos,
                   history_by_file, last_commit, dict_vars, git_data, post_vars>>

(***************************************************************************)
(* The registry specification: GitFileHistory::new over every small        *)
(* repository, with and without the changes of merge commits.              *)
(***************************************************************************)
TheUser == User_new(Some(<<74>>), Some(<<106, 64>>))

\* Additions, a modification, deletions and a rename chain a -> b -> c.
GitChanges ==
    {FileChange("a", None, "Add", 1, 0),
     FileChange("b", None, "Modify", 1, 0),
     FileChange("a", None, "Delete", 0, 1),
     FileChange("b", None, "Delete", 0, 1),
     FileChange("b", Some("a"), "Rename", 0, 0),
     FileChange("c", Some("b"), "Rename", 0, 0)}

GitPaths == {"a", "b", "c"}

GitInputs ==
    [max_commits |-> MaxCommits,
     diffs |-> {<<>>} \cup {<<c>> : c \in GitChanges},
     times |-> {<<5, 5>>},
     people |-> {<<TheUser, TheUser, <<>> >>}]

InitDictionary ==
    /\ next_id = 0
    /\ lower_users = EmptyMap
    /\ users = <<>>
    /\ calls = <<>>

InitHistory(cfgs) ==
    /\ config \in cfgs
    /\ revwalk = [walked |-> 0, pending |-> {}, last_time |-> None]
    /\ pc = "iterating"
    /\ log_entries = <<>>
    /\ rev_changes = EmptyMap
    /\ attr_pos = 0
    /\ history_by_file = EmptyMap
    /\ last_commit = 0
    /\ git_data = EmptyMap
    /\ coupling = [stage |-> "idle"]
    /\ cli = [pc |-> "idle"]
    /\ flare = [stage |-> "idle"]

InitGit ==
    /\ InitHistory([include_merges : BOOLEAN, earliest_time : {0}])
    /\ InitDictionary

NextGit ==
    \/ IteratorNext(GitInputs)
    \/ IteratorErr(GitInputs)
    \/ IteratorFails
    \/ IteratorEnd
    \/ Attribute
    \/ HistoryBuilt

SpecGit == InitGit /\ [][NextGit]_vars

(***************************************************************************)
(* What the commit log says, read off log_entries alone: the commits the   *)
(* iterator yielded, their children in walk order, and the line of first   *)
(* children that leads from a commit to the newest commit.                 *)
(***************************************************************************)
OkEntries == {e \in Range(log_entries) : e.ok}
Yielded == {e.id : e \in OkEntries}
EntryOf(c) == CHOOSE e \in OkEntries : e.id = c

\* The yielded commits that name c as a parent; the smallest id is the one
\* the walk yielded, and so registered, first.
LogChildren(c) == {e.id : e \in {x \in OkEntries : c \in Range(x.parents)}}

RECURSIVE MainLine(_)
MainLine(c) ==
    IF LogChildren(c) = {} THEN <<c>>
    ELSE <<c>> \o MainLine(Min(LogChildren(c)))

\* The names old_name is renamed to by the file changes of entry e.
RenamedTo(e, old_name) ==
    {fc.file : fc \in {x \in Range(e.file_changes) :
                         x.change = "Rename" /\ x.old_file = Some(old_name)}}

DeletedIn(e, name) ==
    \E fc \in Range(e.file_changes) : fc.change = "Delete" /\ fc.file = name

\* The name of path p after the renames of the first i commits of line.
RECURSIVE NameAfter(_, _, _)
NameAfter(line, p, i) ==
    IF i = 0 THEN p
    ELSE LET before == NameAfter(line, p, i - 1)
             to == RenamedTo(EntryOf(line[i]), before)
         IN IF to = {} THEN before ELSE CHOOSE n \in to : TRUE

\* A linear chain: no commit of the line has a second child, and every
\* commit after the first has one parent.
LinearFrom(c) ==
    \A i \in DOMAIN MainLine(c) :
        /\ Cardinality(LogChildren(MainLine(c)[i])) <= 1
        /\ i > 1 => Len(EntryOf(MainLine(c)[i]).parents) = 1

NeverDeleted(c, p) ==
    \A i \in DOMAIN MainLine(c) :
        ~DeletedIn(EntryOf(MainLine(c)[i]), NameAfter(MainLine(c), p, i - 1))

RenameCount(c, p) ==
    Cardinality({i \in DOMAIN MainLine(c) :
        NameAfter(MainLine(c), p, i) # NameAfter(MainLine(c), p, i - 1)})

(***************************************************************************)
(* C1.  Along a linear chain of registered commits on which a path is      *)
(* renamed and never deleted, final_name(oldest commit, original path) is  *)
(* the name the path has at the newest commit of the chain: the renames of *)
(* the chain composed from the oldest to the newest.                       *)
(***************************************************************************)
C1_RenameChain ==
    \A c \in Yielded : \A p \in GitPaths :
        (LinearFrom(c) /\ NeverDeleted(c, p)) =>
            final_name(rev_changes, c, p) =
                [panic |-> FALSE,
                 name |-> Some(NameAfter(MainLine(c), p, Len(MainLine(c))))]

\* A chain of three commits that renames a path twice, a to b to c.
C1_Witness ==
    \E c \in Yielded :
        /\ LinearFrom(c) /\ NeverDeleted(c, "a")
        /\ Len(MainLine(c)) = 3
        /\ RenameCount(c, "a") = 2
        /\ final_name(rev_changes, c, "a").name = Some("c")

(***************************************************************************)
(* C2.  final_name(c, p) is None exactly when, walking from c through the  *)
(* first children and applying the renames on the way, some commit of the  *)
(* walk records the then-current name as Deleted, whatever later commits   *)
(* add under that name; otherwise it is Some(name).                        *)
(***************************************************************************)
\* The change the registry holds at commit x for name n.
Recorded(x, n) == files_get(rev_changes[x].files, n)

\* The name of p when the walk reaches the i-th commit of line having met
\* no deletion: the registry's renames of the commits before it applied.
RECURSIVE NameReaching(_, _, _)
NameReaching(line, p, i) ==
    IF i = 1 THEN p
    ELSE LET before == NameReaching(line, p, i - 1)
             rec == Recorded(line[i - 1], before)
         IN IF rec # None /\ rec[1].kind = "Renamed" THEN rec[1].to ELSE before

DeletionMet(c, p) ==
    \E i \in DOMAIN MainLine(c) :
        /\ Recorded(MainLine(c)[i], NameReaching(MainLine(c), p, i)) = Some(Deleted)
        /\ \A j \in 1..(i - 1) :
             Recorded(MainLine(c)[j], NameReaching(MainLine(c), p, j)) # Some(Deleted)

C2_DeletedIsNone ==
    \A c \in Yielded : \A p \in GitPaths :
        /\ ~final_name(rev_changes, c, p).panic
        /\ final_name(rev_changes, c, p).name = None <=> DeletionMet(c, p)

\* A path deleted by one commit and added again by a newer commit of the
\* walk: the old path has no final name.
C2_Witness ==
    \E c \in Yielded :
        /\ Len(MainLine(c)) >= 2
        /\ DeletedIn(EntryOf(c), "a")
        /\ \E i \in 2..Len(MainLine(c)) :
             \E fc \in Range(EntryOf(MainLine(c)[i]).file_changes) :
                fc.change = "Add" /\ fc.file = "a"
        /\ final_name(rev_changes, c, "a").name = None

(***************************************************************************)
(* C3.  At a commit with several children final_name moves to the child    *)
(* that was registered first, and what the registry holds for any other    *)
(* child does not change the result.                                       *)
(***************************************************************************)
\* The registry with the renames and deletes of commit s forgotten.
Forget(rc, s) == [rc EXCEPT ![s].files = EmptyMap]

C3_FirstChildOnly ==
    \A c \in Yielded : \A p \in GitPaths :
        \A i \in DOMAIN MainLine(c) :
            LET x == MainLine(c)[i]
            IN \A s \in LogChildren(x) :
                 s # Min(LogChildren(x)) =>
                    /\ rev_changes[x].children[1] = Min(LogChildren(x))
                    /\ final_name(Forget(rev_changes, s), c, p) =
                           final_name(rev_changes, c, p)

\* A commit with two children whose second child renames b: the rename is
\* not applied to the path b of the parent.
C3_Witness ==
    \E c \in Yielded :
        /\ Cardinality(LogChildren(c)) = 2
        /\ RenamedTo(EntryOf(Max(LogChildren(c))), "b") = {"c"}
        /\ RenamedTo(EntryOf(Min(LogChildren(c))), "b") = {}
        /\ final_name(rev_changes, c, "b").name = Some("b")

(***************************************************************************)
(* C4.  The per-file history holds, under each key k, exactly the file     *)
(* changes whose final name is Some(k), each once and in log order; a file *)
(* change whose final name is None is under no key.                        *)
(***************************************************************************)
\* The file changes of entry e whose final name is k, as history entries.
RECURSIVE ChangesNamed(_, _, _)
ChangesNamed(e, file_changes, k) ==
    IF file_changes = <<>> THEN <<>>
    ELSE LET fc == Head(file_changes)
             rest == ChangesNamed(e, Tail(file_changes), k)
         IN IF final_name(rev_changes, e.id, fc.file).name = Some(k)
            THEN <<FileHistoryEntry_from(e, fc)>> \o rest
            ELSE rest

\* The same over the first n entries of the log.
RECURSIVE ExpectedHistory(_, _)
ExpectedHistory(n, k) ==
    IF n = 0 THEN <<>>
    ELSE ExpectedHistory(n - 1, k) \o
         (IF log_entries[n].ok
          THEN ChangesNamed(log_entries[n], log_entries[n].file_changes, k)
          ELSE <<>>)

C4_HistoryByFinalName ==
    pc \in {"attributing", "built"} =>
        /\ DOMAIN history_by_file =
              {k \in GitPaths : ExpectedHistory(attr_pos, k) # <<>>}
        /\ \A k \in DOMAIN history_by_file :
              history_by_file[k] = ExpectedHistory(attr_pos, k)

\* A built history with a key that holds two commits, one of them under an
\* older name, and with a file change dropped because its path was deleted.
C4_Witness ==
    /\ pc = "built"
    /\ \E k \in DOMAIN history_by_file :
         /\ Len(history_by_file[k]) >= 2
         /\ \E e \in OkEntries : \E fc \in Range(e.file_changes) :
              fc.file # k /\ final_name(rev_changes, e.id, fc.file).name = Some(k)
    /\ \E e \in OkEntries : \E fc \in Range(e.file_changes) :
         final_name(rev_changes, e.id, fc.file).name = None

(***************************************************************************)
(* The rename scenario: the repository of the registry test               *)
(* renames_and_deletes_applied_across_history, read by GitFileHistory::new. *)
(* The walk yields C7, the merge C6, its parents C4 and C5 in either        *)
(* order, C2 and C1.  The merged tree keeps d or not, and its difference    *)
(* from C5 is found as a rename, a copy, or an addition and a deletion.     *)
(***************************************************************************)
\* The walk positions of the commits whose place does not vary.
ScenarioIds == [C7 |-> 1, C6 |-> 2, C2 |-> 5, C1 |-> 6]

\* The diffs of the merge C6 against its first parent C4 and against C5.
ScenarioMergeDiffs ==
    {<< <<FileChange("afinal", Some("c"), "Rename", 0, 0)>>,
        <<FileChange("afinal", Some("d"), "Rename", 0, 0)>> >>,
     << <<FileChange("afinal", Some("c"), "Rename", 0, 0)>>,
        <<FileChange("afinal", None, "Add", 1, 0),
          FileChange("d", None, "Delete", 0, 1)>> >>,
     << <<FileChange("afinal", Some("c"), "Rename", 0, 0),
          FileChange("d", None, "Add", 1, 0)>>,
        <<FileChange("afinal", None, "Add", 1, 0)>> >>,
     << <<FileChange("afinal", Some("c"), "Rename", 0, 0),
          FileChange("d", None, "Add", 1, 0)>>,
        <<FileChange("afinal", Some("d"), "Copied", 0, 0)>> >>}

ScenarioC4 == [parents |-> <<5>>,
               diffs |-> << <<FileChange("c", Some("b"), "Rename", 0, 0)>> >>]

ScenarioC5 == [parents |-> <<5>>,
               diffs |-> << <<FileChange("d", Some("b"), "Rename", 0, 0)>> >>]

\* The commits the revwalk may yield at position oid after the entries of log.
ScenarioCommits(oid, log) ==
    IF oid = 1
    THEN {[parents |-> <<2>>,
           diffs |-> << <<FileChange("z", None, "Add", 1, 0)>> >>]}
    ELSE IF oid = 2
    THEN {[parents |-> ps, diffs |-> ds] :
             ps \in {<<3, 4>>, <<4, 3>>}, ds \in ScenarioMergeDiffs}
    ELSE IF oid = 3
    THEN (IF log[2].parents[1] = 3 THEN {ScenarioC4} ELSE {ScenarioC5})
    ELSE IF oid = 4
    THEN (IF log[2].parents[1] = 4 THEN {ScenarioC4} ELSE {ScenarioC5})
    ELSE IF oid = 5
    THEN {[parents |-> <<6>>,
           diffs |-> << <<FileChange("b", Some("a"), "Rename", 0, 0),
                          FileChange("z", None, "Delete", 0, 1)>> >>]}
    ELSE {[parents |-> <<>>,
           diffs |-> << <<FileChange("a", None, "Add", 1, 0),
                          FileChange("z", None, "Add", 1, 0)>> >>]}

\* GitLogIterator::next on the scenario's repository.
ScenarioNext ==
    /\ pc = "iterating"
    /\ RevwalkHasNext
    /\ LET oid == revwalk.walked + 1
       IN \E c \in ScenarioCommits(oid, log_entries) :
             Yield(oid, c.parents,
                   (revwalk.pending \cup Range(c.parents)) \ {oid},
                   c.diffs, <<oid, 10 - oid>>, <<TheUser, TheUser, <<>> >>)

InitScenario ==
    /\ InitHistory([include_merges : BOOLEAN, earliest_time : {0}])
    /\ InitDictionary

NextScenario ==
    \/ ScenarioNext
    \/ IteratorEnd
    \/ Attribute
    \/ HistoryBuilt

SpecScenario == InitScenario /\ [][NextScenario]_vars

\* The commits history_for(k) holds, none when k is not a key.
CommitsOf(k) ==
    IF k \in DOMAIN history_by_file
    THEN {history_by_file[k][i].id : i \in DOMAIN history_by_file[k]}
    ELSE {}

MergeEntry == log_entries[ScenarioIds.C6]
IdC4 == MergeEntry.parents[1]
IdC5 == MergeEntry.parents[2]
C4WalkedFirst == IdC4 < IdC5

\* The merge's changes, as the log reports them, rename d to afinal.
MergeRenamesD ==
    \E fc \in Range(MergeEntry.file_changes) :
        fc.change = "Rename" /\ fc.old_file = Some("d") /\ fc.file = "afinal"

\* The claim as the scenario states it.
C5_AsStated ==
    pc = "built" =>
        /\ CommitsOf("afinal") = {ScenarioIds.C1, ScenarioIds.C2, IdC4,
                                  ScenarioIds.C6}
        /\ CommitsOf("z") = {ScenarioIds.C7}
        /\ {"a", "b", "c"} \cap DOMAIN history_by_file = {}

\* C5: in the repository C1: add a; C2: rename a to b, delete z; C4: rename
\* b to c; C5: rename b to d on a sibling branch; C6: merge, rename c to
\* afinal; C7: create new z, history_for(z) holds only C7 and a, b and the
\* original z are never keys.  When the changes of merges are included, c
\* is not a key and history_for(afinal) holds C4 and C6, and it is exactly
\* {C1, C2, C4, C6} when C4 is walked before C5 and the merge is not found to
\* rename d to afinal.  When the changes of merges are left out, afinal is
\* not a key and history_for(c) holds C4, and exactly {C1, C2, C4} when C4
\* is walked before C5.
C5_RenameScenario ==
    pc = "built" =>
        /\ CommitsOf("z") = {ScenarioIds.C7}
        /\ {"a", "b"} \cap DOMAIN history_by_file = {}
        /\ config.include_merges =>
              /\ "c" \notin DOMAIN history_by_file
              /\ {IdC4, ScenarioIds.C6} \subseteq CommitsOf("afinal")
              /\ (C4WalkedFirst /\ ~MergeRenamesD)
                    <=> CommitsOf("afinal") = {ScenarioIds.C1, ScenarioIds.C2,
                                               IdC4, ScenarioIds.C6}
        /\ ~config.include_merges =>
              /\ "afinal" \notin DOMAIN history_by_file
              /\ IdC4 \in CommitsOf("c")
              /\ C4WalkedFirst =>
                    CommitsOf("c") = {ScenarioIds.C1, ScenarioIds.C2, IdC4}

\* The scenario read with the changes of merges: the history of afinal is
\* C1, C2, C4 and C6, and the history of z is C7.
C5_Witness ==
    /\ pc = "built"
    /\ config.include_merges
    /\ Len(log_entries) = 6
    /\ CommitsOf("afinal") = {ScenarioIds.C1, ScenarioIds.C2, IdC4,
                              ScenarioIds.C6}
    /\ CommitsOf("z") = {ScenarioIds.C7}

(***************************************************************************)
(* The dictionary specification: register called with users that differ in *)
(* letter case, in an absent field, or in a letter.                        *)
(***************************************************************************)
\* "Jo", "jo", "JO", "j0"
DictNames == {None, Some(<<74, 111>>), Some(<<106, 111>>), Some(<<74, 79>>),
              Some(<<106, 48>>)}
\* "J@", "j@"
DictEmails == {None, Some(<<74, 64>>), Some(<<106, 64>>)}

DictUsers == {User_new(n, e) : n \in DictNames, e \in DictEmails}

\* dictionary.register(user), and a record of the call.
RegisterCall ==
    /\ Len(calls) < MaxCalls
    /\ \E user \in DictUsers :
         LET r == GitUserDictionary_register(Dictionary, user)
         IN /\ next_id' = r.dict.next_id
            /\ lower_users' = r.dict.lower_users
            /\ users' = r.dict.users
            /\ calls' = Append(calls, [user |-> user, id |-> r.id,
                                       unchanged |-> r.dict = Dictionary])
    /\ UNCHANGED <<hist_vars, git_data, post_vars>>

InitDict ==
    /\ InitDictionary
    /\ InitHistory([include_merges : {TRUE}, earliest_time : {0}])

NextDict == RegisterCall

SpecDict == InitDict /\ [][NextDict]_vars

(***************************************************************************)
(* Equality of users up to letter case, stated without lower-casing.       *)
(***************************************************************************)
SameLetter(x, y) ==
    \/ x = y
    \/ x \in 65..90 /\ y = x + 32
    \/ y \in 65..90 /\ x = y + 32

SameText(a, b) ==
    /\ Len(a) = Len(b)
    /\ \A i \in DOMAIN a : SameLetter(a[i], b[i])

SameField(f, g) ==
    IF f = None \/ g = None THEN f = g ELSE SameText(f[1], g[1])

SameUser(u1, u2) == SameField(u1.name, u2.name) /\ SameField(u1.email, u2.email)

(***************************************************************************)
(* C6.  Two register calls return the same id if and only if their users   *)
(* are equal up to letter case in both the name and the email, an absent   *)
(* field being equal to an absent field only.                              *)
(***************************************************************************)
C6_SameIdIffSameUser ==
    \A i, j \in DOMAIN calls :
        calls[i].id = calls[j].id <=> SameUser(calls[i].user, calls[j].user)

\* Three calls: two users that differ in case only and share an id, and a
\* user with an absent email that gets another id.
C6_Witness ==
    \E i, j, k \in DOMAIN calls :
        /\ calls[i].user # calls[j].user
        /\ SameUser(calls[i].user, calls[j].user)
        /\ calls[i].id = calls[j].id
        /\ calls[k].user.name = calls[i].user.name
        /\ calls[k].user.email = None /\ calls[i].user.email # None
        /\ calls[k].id # calls[i].id

(***************************************************************************)
(* C7.  The dictionary holds the users seen, one per class of users equal  *)
(* up to case, with the ids 0..N-1: the k-th new user has id k and is kept *)
(* and serialized as first given; a call with a known user, in any casing, *)
(* returns the id of that user and leaves the dictionary as it was.        *)
(***************************************************************************)
\* The calls that brought a user not seen before, up to case.
FirstCalls ==
    {i \in DOMAIN calls :
        \A j \in 1..(i - 1) : ~SameUser(calls[j].user, calls[i].user)}

\* How many new users came before call i.
Rank(i) == Cardinality({j \in FirstCalls : j < i})

C7_DenseIdsFirstCasing ==
    /\ next_id = Cardinality(FirstCalls)
    /\ Len(users) = Cardinality(FirstCalls)
    /\ {lower_users[u] : u \in DOMAIN lower_users} = 0..(Cardinality(FirstCalls) - 1)
    /\ Cardinality(DOMAIN lower_users) = Cardinality(FirstCalls)
    /\ \A i \in FirstCalls :
         /\ calls[i].id = Rank(i)
         /\ users[Rank(i) + 1] = calls[i].user
         /\ GitUserDictionary_serialize(Dictionary)[Rank(i) + 1] =
                [id |-> Rank(i), user |-> calls[i].user]
    /\ \A i \in DOMAIN calls \ FirstCalls :
         /\ calls[i].unchanged
         /\ \E j \in FirstCalls :
              /\ j < i
              /\ SameUser(calls[j].user, calls[i].user)
              /\ calls[i].id = calls[j].id

\* A user registered in mixed case, another user, then the first user in
\* lower case: ids 0, 1, 0, and the mixed casing is the one kept.
C7_Witness ==
    /\ Len(calls) = 3
    /\ FirstCalls = {1, 2}
    /\ calls[3].user # calls[1].user
    /\ calls[3].user = as_lower_case(calls[1].user)
    /\ <<calls[1].id, calls[2].id, calls[3].id>> = <<0, 1, 0>>
    /\ users = <<calls[1].user, calls[2].user>>


(***************************************************************************)
(* git.rs: the statistics of one file, GitHistories::stats_from_history.   *)
(***************************************************************************)
SecondsPerDay == 86400

MaxStatCommits == 2

\* NaiveDateTime::from_timestamp(secs).date().and_time(midnight).timestamp()
start_of_day(secs_since_epoch) ==
    (secs_since_epoch \div SecondsPerDay) * SecondsPerDay

\* Ord of String and of Vec: lexicographic, a proper prefix comes first.
lex_lt(a, b) ==
    \E k \in 1..Len(b) :
        /\ \A j \in 1..(k - 1) : j <= Len(a) /\ a[j] = b[j]
        /\ k - 1 <= Len(a)
        /\ (k > Len(a) \/ a[k] < b[k])

\* Ord of Option<String>: None comes before every Some.
Option_lt(f, g) ==
    IF f = None THEN g # None ELSE g # None /\ lex_lt(f[1], g[1])

\* #[derive(PartialOrd, Ord)] on User: by name, then by email.
User_lt(u, v) ==
    \/ Option_lt(u.name, v.name)
    \/ u.name = v.name /\ Option_lt(u.email, v.email)

\* users.sort(); users.dedup(): the distinct users in ascending order.
RECURSIVE sort_dedup(_)
sort_dedup(S) ==
    IF S = {} THEN <<>>
    ELSE LET m == CHOOSE u \in S : \A v \in S \ {u} : User_lt(u, v)
         IN <<m>> \o sort_dedup(S \ {m})

\* users.into_iter().map(|u| dictionary.register(u)).collect()
RECURSIVE register_each(_, _)
register_each(us, d) ==
    IF us = <<>> THEN [ids |-> {}, dict |-> d]
    ELSE LET r == GitUserDictionary_register(d, Head(us))
             rest == register_each(Tail(us), r.dict)
         IN [ids |-> {r.id} \cup rest.ids, dict |-> rest.dict]

\* GitHistories::unique_changers: the ids of the co-authors, the author and
\* the committer of one entry, and the dictionary afterwards.
unique_changers(history, d) ==
    LET chained == history.co_authors \o <<history.author>>
                                      \o <<history.committer>>
    IN register_each(sort_dedup(Range(chained)), d)

\* history.iter().flat_map(|h| unique_changers(h, dictionary)).collect()
RECURSIVE changers_of(_, _)
changers_of(history, d) ==
    IF history = <<>> THEN [ids |-> {}, dict |-> d]
    ELSE LET r == unique_changers(Head(history), d)
             rest == changers_of(Tail(history), r.dict)
         IN [ids |-> r.ids \cup rest.ids, dict |-> rest.dict]

\* The iteration order of a BTreeSet<usize>, and sort_unstable on the ids.
RECURSIVE ascending(_)
ascending(S) ==
    IF S = {} THEN <<>> ELSE <<Min(S)>> \o ascending(S \ {Min(S)})

\* impl Ord for GitDetails: by commit_day, then by the user set.
GitDetails_lt(x, y) ==
    \/ x.commit_day < y.commit_day
    \/ /\ x.commit_day = y.commit_day
       /\ lex_lt(ascending(x.users), ascending(y.users))

\* details_vec.sort() on the values of the details map.
RECURSIVE sort_details(_)
sort_details(S) ==
    IF S = {} THEN <<>>
    ELSE LET m == CHOOSE x \in S : \A y \in S \ {x} : ~GitDetails_lt(y, x)
         IN <<m>> \o sort_details(S \ {m})

\* One summary per day, whoever changed the file.
GitDetailsKey_by_day(author_day, changers) ==
    [commit_day |-> author_day, users |-> {}]

\* GitDetailsKey {commit_day: author_day, users: unique_changers.clone()}
GitDetailsKey(author_day, changers) ==
    [commit_day |-> author_day, users |-> changers]

\* One turn of the loop "for entry in history" of stats_from_history, with
\* changers what unique_changers returned for the entry: the details map,
\* the activity list and the dictionary afterwards.
summarise_entry(entry, changers, details, activity_vec) ==
    LET author_day == start_of_day(entry.author_time)
        key == GitDetailsKey(author_day, changers.ids)
        found == IF key \in DOMAIN details THEN details[key]
                 ELSE [commit_day |-> author_day, users |-> changers.ids,
                       commits |-> 0, lines_added |-> 0, lines_deleted |-> 0]
        daily_details ==
            [commit_day |-> found.commit_day,
             users |-> found.users \cup changers.ids,
             commits |-> found.commits + 1,
             lines_added |-> found.lines_added + entry.lines_added,
             lines_deleted |-> found.lines_deleted + entry.lines_deleted]
        activity == [commit_time |-> entry.commit_time,
                     author_time |-> entry.author_time,
                     users |-> changers.ids,
                     change |-> entry.change,
                     lines_added |-> entry.lines_added,
                     lines_deleted |-> entry.lines_deleted]
    IN [dict |-> changers.dict,
        details |-> [k \in DOMAIN details \cup {key} |->
                        IF k = key THEN daily_details ELSE details[k]],
        activity |-> Append(activity_vec, activity)]

\* The loop "for entry in history" of stats_from_history: done is the
\* dictionary, the details map and the activity list so far.
RECURSIVE summarise_entries(_, _)
summarise_entries(history, done) ==
    IF history = <<>> THEN done
    ELSE summarise_entries(Tail(history),
            summarise_entry(Head(history),
                            unique_changers(Head(history), done.dict),
                            done.details, done.activity))

\* A creation date that is the earliest Add, whatever else came before it.
creation_date_earliest_add(history) ==
    LET adds == {history[i].author_time :
                    i \in {j \in DOMAIN history : history[j].change = "Add"}}
    IN IF adds = {} THEN None ELSE Some(Min(adds))

\* The earliest author time of an Add, unless an entry is earlier still.
creation_date(history) ==
    LET first_date == Min({history[i].author_time : i \in DOMAIN history})
        adds == {history[i].author_time :
                    i \in {j \in DOMAIN history : history[j].change = "Add"}}
    IN IF adds = {} THEN None
       ELSE IF first_date < Min(adds) THEN None
       ELSE Some(Min(adds))

\* A changer list left in the order the set happens to give: here the
\* descending one.
RECURSIVE changer_list_unsorted(_)
changer_list_unsorted(changers) ==
    IF changers = {} THEN <<>>
    ELSE <<Max(changers)>> \o changer_list_unsorted(changers \ {Max(changers)})

\* changers.into_iter().collect() followed by changer_list.sort_unstable()
sort_unstable(changers) == ascending(changers)

\* Some(GitData {..}) at the end of stats_from_history, with changers the
\* ids collected from the history and done the outcome of the loop.  When
\* last is before last_update and the build does not check overflow, the
\* u64 difference wraps to 2^64 - (last_update - last); as 2^64 is
\* 213503982334601 * 86400 + 25216, the days are written as the pair
\* <<billions, rest>> of a number beyond the integers here.
GitData_new(last, history, changers, done) ==
    LET last_update == Max({history[i].commit_time : i \in DOMAIN history})
        age_in_days ==
            IF last >= last_update
            THEN (last - last_update) \div SecondsPerDay
            ELSE <<213503,
                   982334601 + ((25216 - (last_update - last)) \div SecondsPerDay)>>
        changer_list == sort_unstable(changers)
        details_vec == sort_details({done.details[k] : k \in DOMAIN done.details})
    IN [overflow |-> FALSE,
        data |-> Some([last_update |-> last_update,
                       age_in_days |-> age_in_days,
                       creation_date |-> creation_date(history),
                       user_count |-> Len(changer_list),
                       users |-> changer_list,
                       details |-> details_vec,
                       activity |-> done.activity]),
        dict |-> done.dict]

\* stats_from_history from the collection of the changers on.
stats_with_changers(last, history, changers) ==
    GitData_new(last, history, changers.ids,
                summarise_entries(history,
                    [dict |-> changers.dict, details |-> EmptyMap,
                     activity |-> <<>>]))

\* GitHistories::stats_from_history: the outcomes the builds can give, each
\* the Option<GitData> returned and the dictionary afterwards.  When
\* last_commit - last_update leaves the u64 range, a build with overflow
\* checks panics there, before any user is registered (overflow), and a
\* build without them goes on with the wrapped difference.
stats_from_history(d, last, history) ==
    IF history = <<>> THEN {[overflow |-> FALSE, data |-> None, dict |-> d]}
    ELSE IF last < Max({history[i].commit_time : i \in DOMAIN history})
    THEN {[overflow |-> TRUE, data |-> None, dict |-> d],
          stats_with_changers(last, history, changers_of(history, d))}
    ELSE {stats_with_changers(last, history, changers_of(history, d))}

\* The end of calculate for a file with a history: the statistics are
\* returned and the dictionary keeps the users registered on the way.
ReturnStats(path, stats) ==
    IF stats.overflow
    THEN /\ pc' = "overflow"
         /\ UNCHANGED <<git_data, next_id, lower_users, users>>
    ELSE /\ pc' = pc
         /\ git_data' = [f \in DOMAIN git_data \cup {path} |->
                            IF f = path THEN Some(stats.data) ELSE git_data[f]]
         /\ next_id' = stats.dict.next_id
         /\ lower_users' = stats.dict.lower_users
         /\ users' = stats.dict.users

\* GitCalculator::calculate on a file of the repository whose history is
\* loaded.  git_data keeps what the call returns: None for Ok(None), and
\* Some(stats) with stats the Option<GitData> of stats_from_history.
Calculate(paths) ==
    /\ pc = "built"
    /\ \E path \in paths \ DOMAIN git_data :
          IF path \in DOMAIN history_by_file
          THEN \E stats \in stats_from_history(Dictionary, last_commit,
                                                history_by_file[path]) :
                  ReturnStats(path, stats)
          ELSE /\ git_data' = [f \in DOMAIN git_data \cup {path} |->
                                  IF f = path THEN None ELSE git_data[f]]
               /\ UNCHANGED <<pc, next_id, lower_users, users>>
    /\ UNCHANGED <<hist_vars_but_pc, calls, post_vars>>

(***************************************************************************)
(* The statistics specification: a repository with one file, commits on    *)
(* either side of midnight, and the statistics of the file.                *)
(***************************************************************************)
StatUserA == User_new(Some(<<74, 111>>), Some(<<106, 64>>))
StatUserB == User_new(None, Some(<<98, 64>>))
StatUserC == User_new(Some(<<106, 111>>), Some(<<74, 64>>))
StatUserD == User_new(Some(<<68, 105>>), None)

StatPaths == {"f"}

StatInputs ==
    [max_commits |-> MaxStatCommits,
     diffs |-> {<<>>,
                <<FileChange("f", None, "Add", 2, 0)>>,
                <<FileChange("f", None, "Modify", 1, 3)>>},
     times |-> {<<86399, 100>>, <<86400, 86500>>, <<90000, 172899>>},
     people |-> {<<StatUserA, StatUserA, <<>> >>,
                 <<StatUserB, StatUserC, <<StatUserD, StatUserA>> >>}]

InitStats ==
    /\ InitHistory([include_merges : {TRUE}, earliest_time : {0}])
    /\ InitDictionary

NextStats ==
    \/ IteratorNext(StatInputs)
    \/ IteratorEnd
    \/ Attribute
    \/ HistoryBuilt
    \/ Calculate(StatPaths)

SpecStats == InitStats /\ [][NextStats]_vars

(***************************************************************************)
(* What calculate returned, read off git_data, and the history it read.    *)
(***************************************************************************)
HasStats(f) ==
    /\ f \in DOMAIN git_data
    /\ git_data[f] # None
    /\ git_data[f][1] # None

StatsOf(f) == git_data[f][1][1]

AddEntries(h) == {i \in DOMAIN h : h[i].change = "Add"}

\* t is the author time of an Add of h, no Add is earlier, and no entry of
\* any kind is earlier.
IsCreation(h, t) ==
    /\ \E i \in AddEntries(h) : h[i].author_time = t
    /\ \A i \in AddEntries(h) : t <= h[i].author_time
    /\ \A i \in DOMAIN h : t <= h[i].author_time

\* C8: for every file emitted with git data, creation_date is Some(t)
\* exactly when the history has an Add entry, t is the least author_time of
\* the Add entries and no entry of any kind has an earlier author_time; in
\* every other case creation_date is None.
C8_CreationDate ==
    \A f \in DOMAIN git_data :
        HasStats(f) =>
            LET h == history_by_file[f]
                times == {h[i].author_time : i \in DOMAIN h}
            IN /\ \A t \in times :
                    StatsOf(f).creation_date = Some(t) <=> IsCreation(h, t)
               /\ StatsOf(f).creation_date \in {None} \cup {Some(t) : t \in times}
               /\ (\A t \in times : ~IsCreation(h, t))
                      => StatsOf(f).creation_date = None

\* A file with an Add whose statistics have no creation date, because a
\* Modify was authored before the only Add.
C8_Witness ==
    /\ HasStats("f")
    /\ StatsOf("f").creation_date = None
    /\ LET h == history_by_file["f"]
       IN /\ Cardinality(AddEntries(h)) = 1
          /\ \E i \in AddEntries(h), j \in DOMAIN h :
                /\ h[j].change = "Modify"
                /\ h[j].author_time < h[i].author_time

\* The commit times of the commits the log yielded.
LogCommitTimes == {e.commit_time : e \in OkEntries}

\* C9: for every file emitted with git data, last_update is the greatest
\* commit_time of the file's history entries, last_update <= last_commit
\* where last_commit is the greatest commit time of the log, age_in_days is
\* (last_commit - last_update) / 86400 rounded down, and the subtraction
\* never goes below zero.
C9_LastUpdateAndAge ==
    /\ pc # "overflow"
    /\ \A f \in DOMAIN git_data :
          HasStats(f) =>
              LET h == history_by_file[f]
                  d == StatsOf(f)
              IN /\ \E i \in DOMAIN h : d.last_update = h[i].commit_time
                 /\ \A i \in DOMAIN h : h[i].commit_time <= d.last_update
                 /\ last_commit \in LogCommitTimes
                 /\ \A t \in LogCommitTimes : t <= last_commit
                 /\ d.last_update <= last_commit
                 /\ d.age_in_days * 86400 <= last_commit - d.last_update
                 /\ last_commit - d.last_update < (d.age_in_days + 1) * 86400

\* A file last changed one day and some hours before the last commit of the
\* log: the age is one day, the remainder is dropped.
C9_Witness ==
    /\ HasStats("f")
    /\ StatsOf("f").age_in_days = 1
    /\ last_commit - StatsOf("f").last_update > 86400

\* The ids the dictionary gives to the author, the committer and the
\* co-authors of a history entry.
IdOf(u) == lower_users[as_lower_case(u)]

ChangerIds(e) == {IdOf(u) : u \in Range(e.co_authors) \cup {e.author, e.committer}}

DayOf(e) == e.author_time - (e.author_time % 86400)

\* The entries of h that fall on day and were changed by the users ids.
Contributing(h, day, ids) ==
    {i \in DOMAIN h : DayOf(h[i]) = day /\ ChangerIds(h[i]) = ids}

RECURSIVE SumOver(_, _, _)
SumOver(h, I, field) ==
    IF I = {} THEN 0
    ELSE LET i == CHOOSE x \in I : TRUE
         IN (IF field = "added" THEN h[i].lines_added ELSE h[i].lines_deleted)
            + SumOver(h, I \ {i}, field)

\* The order of two sets of ids listed in ascending order: decided by the
\* least id that is in one set only.
IdsBefore(A, B) ==
    /\ A # B
    /\ LET m == Min((A \ B) \cup (B \ A))
       IN IF m \in A THEN \E b \in B : b > m ELSE \A a \in A : a < m

DetailsBefore(x, y) ==
    \/ x.commit_day < y.commit_day
    \/ x.commit_day = y.commit_day /\ IdsBefore(x.users, y.users)

\* C10: for every file's git data, details has exactly one GitDetails per
\* distinct pair (start of day of author_time, set of unique-changer ids) of
\* the file's history entries; its commit_day is a multiple of 86400, its
\* users are the unique changers of the contributing entries, its commits
\* is their number, its lines_added and lines_deleted are their sums, and
\* the list is sorted by (commit_day, users).
C10_DetailsPerDayAndUsers ==
    \A f \in DOMAIN git_data :
        HasStats(f) =>
            LET h == history_by_file[f]
                details == StatsOf(f).details
                pairs == {<<DayOf(h[i]), ChangerIds(h[i])>> : i \in DOMAIN h}
            IN /\ Len(details) = Cardinality(pairs)
               /\ \A p \in pairs :
                     \E k \in DOMAIN details :
                        /\ details[k].commit_day = p[1]
                        /\ details[k].users = p[2]
               /\ \A k \in DOMAIN details :
                     LET x == details[k]
                         I == Contributing(h, x.commit_day, x.users)
                     IN /\ x.commit_day % 86400 = 0
                        /\ I # {}
                        /\ x.users = UNION {ChangerIds(h[i]) : i \in I}
                        /\ x.commits = Cardinality(I)
                        /\ x.lines_added = SumOver(h, I, "added")
                        /\ x.lines_deleted = SumOver(h, I, "deleted")
               /\ \A k, l \in DOMAIN details :
                     k < l => DetailsBefore(details[k], details[l])

\* Two entries of one day changed by different sets of users: two records
\* of that day, the smaller set of ids first.
C10_Witness ==
    /\ HasStats("f")
    /\ LET details == StatsOf("f").details
       IN /\ Len(details) = 2
          /\ details[1].commit_day = details[2].commit_day
          /\ details[1].commit_day > 0
          /\ details[1].users # details[2].users
          /\ \E i, j \in DOMAIN history_by_file["f"] :
                history_by_file["f"][i].author_time
                    # history_by_file["f"][j].author_time

\* C11: for every file's git data, the activity list has exactly one
\* GitActivity per history entry, and the list is ordered by commit time
\* (the order of impl Ord for GitActivity), whatever order the history
\* entries were collected in from the newest-first commit log.
C11_ActivityByCommitTime ==
    \A f \in DOMAIN git_data :
        HasStats(f) =>
            LET activity == StatsOf(f).activity
            IN /\ Len(activity) = Len(history_by_file[f])
               /\ \A k, l \in DOMAIN activity :
                     k < l => activity[k].commit_time <= activity[l].commit_time

\* C12: for every file's git data, users is the ascending, duplicate-free
\* list of the dictionary ids of every author, committer and co-author over
\* all history entries of the file, and user_count is the length of that
\* list.
C12_UsersAscendingIds ==
    \A f \in DOMAIN git_data :
        HasStats(f) =>
            LET h == history_by_file[f]
                d == StatsOf(f)
            IN /\ \A k, l \in DOMAIN d.users : k < l => d.users[k] < d.users[l]
               /\ Range(d.users) = UNION {ChangerIds(h[i]) : i \in DOMAIN h}
               /\ \A i \in DOMAIN h :
                     {IdOf(h[i].author), IdOf(h[i].committer)}
                         \cup {IdOf(u) : u \in Range(h[i].co_authors)}
                             \subseteq Range(d.users)
               /\ d.user_count = Len(d.users)

\* A file changed by four users of whom two differ in letter case only:
\* three ids, listed in ascending order.
C12_Witness ==
    /\ HasStats("f")
    /\ StatsOf("f").users = <<0, 1, 2>>
    /\ StatsOf("f").user_count = 3
    /\ \E i \in DOMAIN history_by_file["f"] :
          LET e == history_by_file["f"][i]
          IN Cardinality(Range(e.co_authors) \cup {e.author, e.committer}) = 4

(***************************************************************************)
(* coupling.rs: activity bursts, buckets and the coupling of files.        *)
(* A PathVec is the sequence of its components, a component the sequence   *)
(* of its character codes; a BTreeSet or HashSet is a set, a map a         *)
(* function.                                                               *)
(***************************************************************************)
\* A burst that ends only when the gap reaches past min_activity_gap + 1.
within_gap_off_by_one(event, last, min_activity_gap) ==
    (event - last) <= min_activity_gap + 1

\* if (event - last) <= min_activity_gap
within_gap(event, last, min_activity_gap) ==
    (event - last) <= min_activity_gap

ActivityBurst(start, end, event_count) ==
    [start |-> start, end |-> end, event_count |-> event_count]

\* The loop of ActivityBurst::from_events over the events in ascending
\* order, and the push after the loop.
RECURSIVE from_events_loop(_, _, _, _, _, _)
from_events_loop(events, min_activity_gap, results, first_event, last_event, event_count) ==
    IF events = <<>>
    THEN IF last_event # None
         THEN Append(results,
                     ActivityBurst(first_event[1], last_event[1], event_count))
         ELSE results
    ELSE IF last_event = None
    THEN from_events_loop(Tail(events), min_activity_gap, results,
                          Some(Head(events)), Some(Head(events)), 1)
    ELSE IF within_gap(Head(events), last_event[1], min_activity_gap)
    THEN from_events_loop(Tail(events), min_activity_gap, results,
                          first_event, Some(Head(events)), event_count + 1)
    ELSE from_events_loop(Tail(events), min_activity_gap,
                          Append(results,
                                 ActivityBurst(first_event[1], last_event[1],
                                               event_count)),
                          Some(Head(events)), Some(Head(events)), 1)

\* ActivityBurst::from_events
from_events(events, min_activity_gap) ==
    from_events_loop(ascending(events), min_activity_gap, <<>>, None, None, 0)

\* common_roots: the components two paths share from the start.
RECURSIVE common_roots(_, _)
common_roots(path1, path2) ==
    IF path1 = <<>> \/ path2 = <<>> THEN 0
    ELSE IF Head(path1) = Head(path2)
    THEN 1 + common_roots(Tail(path1), Tail(path2))
    ELSE 0

\* relationship_distance_with_common_precalculated
relationship_distance_with_common_precalculated(path1, path2, common_root_count) ==
    IF common_root_count = 0 THEN None
    ELSE IF Len(path2) > Len(path1) THEN Some(Len(path2) - common_root_count)
    ELSE Some(Len(path1) - common_root_count)

\* A distance test that also removes the files with no common root.
distance_allows_related_only(distance, min_distance) ==
    IF distance # None THEN distance[1] >= min_distance ELSE min_distance = 0

\* if let Some(distance) = distance { return distance >= min_distance; } true
distance_allows(distance, min_distance) ==
    IF distance # None THEN distance[1] >= min_distance ELSE TRUE

\* filter_file: TRUE when path2 may be coupled to path1.
filter_file(min_distance, max_common_roots, path1, path2) ==
    IF max_common_roots # None
       /\ common_roots(path1, path2) > max_common_roots[1]
    THEN FALSE
    ELSE distance_allows(
             relationship_distance_with_common_precalculated(
                 path1, path2, common_roots(path1, path2)),
             min_distance)

\* A collection that takes the changes of every node, whatever its lines
\* of code.
changes_of_node_any_loc(node) ==
    {node.activity[i].commit_time :
        i \in {j \in DOMAIN node.activity :
                  node.activity[j].lines_deleted > 0
                  \/ node.activity[j].lines_added > 0}}

\* FileChangeTimestamps::accumulate_files over the file nodes of the tree:
\* the changes a node contributes are those of its activity with lines
\* added or deleted, when the node has lines of code.
changes_of_node(node) ==
    IF (IF node.loc = None THEN 0 ELSE node.loc[1]) > 0
    THEN {node.activity[i].commit_time :
             i \in {j \in DOMAIN node.activity :
                       node.activity[j].lines_deleted > 0
                       \/ node.activity[j].lines_added > 0}}
    ELSE {}

\* FileChangeTimestamps::new: timestamps maps a time to the files changed
\* then, file_changes a file to the times it changed.
FileChangeTimestamps_new(tree) ==
    LET changed == {f \in DOMAIN tree : changes_of_node(tree[f]) # {}}
        times == UNION {changes_of_node(tree[f]) : f \in changed}
    IN [timestamps |-> [t \in times |->
                           {f \in changed : t \in changes_of_node(tree[f])}],
        file_changes |-> [f \in changed |-> changes_of_node(tree[f])]]

\* CouplingConfig::bucket_size
bucket_size(cfg) == cfg.bucket_days * 24 * 60 * 60

\* BucketingConfig::new
BucketingConfig_new(cfg, earliest, latest) ==
    [bucket_size |-> bucket_size(cfg),
     bucket_count |-> ((latest - earliest) \div bucket_size(cfg)) + 1,
     first_bucket_start |->
         (latest - (bucket_size(cfg)
                    * (((latest - earliest) \div bucket_size(cfg)) + 1))) + 1]

\* BucketingConfig::bucket_start
bucket_start(bucketing, bucket) ==
    bucketing.first_bucket_start + bucket * bucketing.bucket_size

\* BucketingConfig::bucket_for
bucket_for(bucketing, timestamp) ==
    IF timestamp < bucketing.first_bucket_start THEN None
    ELSE IF timestamp - bucketing.first_bucket_start
                >= bucketing.bucket_count * bucketing.bucket_size
    THEN None
    ELSE Some((timestamp - bucketing.first_bucket_start)
                  \div bucketing.bucket_size)

\* Coupling::new
Coupling_new(name) ==
    [name |-> name, activity_bursts |-> 0, coupled_files |-> EmptyMap]

\* An add_files that counts the file itself like any other file.
Coupling_add_files_with_self(c, files) ==
    [name |-> c.name,
     activity_bursts |-> c.activity_bursts + 1,
     coupled_files |->
         [f \in DOMAIN c.coupled_files \cup files |->
             (IF f \in DOMAIN c.coupled_files THEN c.coupled_files[f] ELSE 0)
             + (IF f \in files THEN 1 ELSE 0)]]

\* Coupling::add_files, with files the set unique_files.
Coupling_add_files(c, files) ==
    [name |-> c.name,
     activity_bursts |-> c.activity_bursts + 1,
     coupled_files |->
         [f \in DOMAIN c.coupled_files \cup (files \ {c.name}) |->
             (IF f \in DOMAIN c.coupled_files THEN c.coupled_files[f] ELSE 0)
             + (IF f \in files THEN 1 ELSE 0)]]

\* CouplingBucket::new
CouplingBucket_new(start, size) ==
    [bucket_start |-> start, bucket_size |-> size, couplings |-> EmptyMap]

\* CouplingBucket::add_files
CouplingBucket_add_files(bucket, from, to) ==
    [bucket EXCEPT !.couplings =
        [f \in DOMAIN bucket.couplings \cup {from} |->
            IF f = from
            THEN Coupling_add_files(
                     IF from \in DOMAIN bucket.couplings
                     THEN bucket.couplings[from] ELSE Coupling_new(from),
                     to)
            ELSE bucket.couplings[f]]]

\* A ratio test that drops a file whose ratio equals the minimum.  The
\* minimum ratio is the pair <<numerator, denominator>>.
ratio_reached_strictly(other_bursts, bursts, min_coupling_ratio) ==
    other_bursts * min_coupling_ratio[2] > min_coupling_ratio[1] * bursts

\* **other_bursts as f64 / bursts >= min_coupling_ratio
ratio_reached(other_bursts, bursts, min_coupling_ratio) ==
    other_bursts * min_coupling_ratio[2] >= min_coupling_ratio[1] * bursts

\* Coupling::filter_by_ratio
filter_by_ratio(c, min_coupling_ratio) ==
    [name |-> c.name,
     activity_bursts |-> c.activity_bursts,
     coupled_files |->
         [f \in {g \in DOMAIN c.coupled_files :
                    ratio_reached(c.coupled_files[g], c.activity_bursts,
                                  min_coupling_ratio)} |->
             c.coupled_files[f]]]

\* CouplingBucket::filter_by
filter_by(bucket, min_bursts, min_coupling_ratio) ==
    [bucket EXCEPT !.couplings =
        [f \in {g \in DOMAIN bucket.couplings :
                   bucket.couplings[g].activity_bursts >= min_bursts} |->
            filter_by_ratio(bucket.couplings[f], min_coupling_ratio)]]

\* A window that reaches as far after the burst as before it.
in_window_closed(t, window_start, window_end) ==
    window_start <= t /\ t <= window_end

\* file_change_timestamps.timestamps.range(window_start..window_end)
in_window(t, window_start, window_end) ==
    window_start <= t /\ t < window_end

\* The files of unique_files for one burst of file.
unique_files_of(cfg, fct, file, burst) ==
    {dest_file \in DOMAIN fct.file_changes :
        /\ \E t \in DOMAIN fct.timestamps :
              /\ in_window(t, burst.start - cfg.coupling_time_distance,
                              burst.end + cfg.coupling_time_distance)
              /\ dest_file \in fct.timestamps[t]
        /\ filter_file(cfg.min_distance, cfg.max_common_roots, file, dest_file)}

\* A bucket number taken from the end of the burst.
bucket_number_of_end(bucketing, burst) ==
    bucket_for(bucketing, burst.end)[1]

\* let bucket_number = bucketing_config.bucket_for(burst.start).unwrap()
bucket_number(bucketing, burst) ==
    bucket_for(bucketing, burst.start)[1]

\* The body of "for burst in ActivityBurst::from_events(..)" in
\* CouplingBuckets::new, for the bursts of one file.
RECURSIVE couple_bursts(_, _, _, _, _, _)
couple_bursts(buckets, cfg, bucketing, fct, file, bursts) ==
    IF bursts = <<>> THEN buckets
    ELSE couple_bursts(
             [buckets EXCEPT ![bucket_number(bucketing, Head(bursts)) + 1] =
                 CouplingBucket_add_files(@, file,
                     unique_files_of(cfg, fct, file, Head(bursts)))],
             cfg, bucketing, fct, file, Tail(bursts))

(***************************************************************************)
(* The burst specification: ActivityBurst::from_events on every set of     *)
(* event times up to MaxEventTime, with gaps around the distances between   *)
(* the events.                                                             *)
(***************************************************************************)
MaxEventTime == 7

BurstGaps == {0, 1, 2}

InitBursts ==
    /\ InitHistory([include_merges : {TRUE}, earliest_time : {0}])
    /\ InitDictionary

\* A caller hands a file's timestamps to from_events and keeps the bursts.
FromEvents ==
    /\ coupling.stage = "idle"
    /\ \E events \in SUBSET (1..MaxEventTime), min_activity_gap \in BurstGaps :
          coupling' = [stage |-> "bursts",
                       events |-> events,
                       min_activity_gap |-> min_activity_gap,
                       bursts |-> from_events(events, min_activity_gap)]
    /\ UNCHANGED <<hist_vars, dict_vars, git_data, cli, flare>>

NextBursts == FromEvents

SpecBursts == InitBursts /\ [][NextBursts]_vars

\* The events of a burst: those from its start to its end.
EventsOf(events, burst) == {t \in events : burst.start <= t /\ t <= burst.end}

\* C20: from_events partitions the sorted timestamps into maximal runs:
\* every event belongs to exactly one burst, the event counts sum to the
\* number of events, the bursts are in ascending time order with start <=
\* end, consecutive events inside a burst are at most min_activity_gap
\* apart, the gap from a burst's end to the next burst's start is greater
\* than min_activity_gap, and no events give no burst.
C20_BurstsPartitionEvents ==
    coupling.stage = "bursts" =>
        LET events == coupling.events
            gap == coupling.min_activity_gap
            bursts == coupling.bursts
        IN /\ \A t \in events :
                 Cardinality({k \in DOMAIN bursts :
                                 t \in EventsOf(events, bursts[k])}) = 1
           /\ \A k \in DOMAIN bursts :
                 /\ bursts[k].start <= bursts[k].end
                 /\ bursts[k].start \in events
                 /\ bursts[k].end \in events
                 /\ bursts[k].event_count
                        = Cardinality(EventsOf(events, bursts[k]))
                 /\ bursts[k].event_count >= 1
                 /\ \A t \in EventsOf(events, bursts[k]) :
                       t = bursts[k].start
                       \/ \E u \in EventsOf(events, bursts[k]) :
                             u < t /\ t - u <= gap
                             /\ \A v \in events : ~(u < v /\ v < t)
           /\ \A k \in DOMAIN bursts :
                 k < Len(bursts) =>
                    /\ bursts[k].end < bursts[k + 1].start
                    /\ bursts[k + 1].start - bursts[k].end > gap
           /\ (events = {}) <=> (bursts = <<>>)

\* Events with a gap equal to min_activity_gap inside a burst and a larger
\* gap between two bursts.
C20_Witness ==
    /\ coupling.stage = "bursts"
    /\ Len(coupling.bursts) = 2
    /\ coupling.min_activity_gap = 2
    /\ coupling.bursts[1].event_count = 3
    /\ coupling.bursts[1].end - coupling.bursts[1].start = 3
    /\ coupling.bursts[2].start - coupling.bursts[1].end = 3

(***************************************************************************)
(* The coupling specification: gather_coupling on trees of a few files     *)
(* with git activity.  A path is the sequence of its components, a         *)
(* component the sequence of its character codes.  CouplingBuckets::new    *)
(* takes the files in the iteration order of a HashMap, which is any       *)
(* order; the specification takes one file per step.                       *)
(***************************************************************************)
MaxFiles == 2

\* #[derive(PartialOrd)] on PathVec: the order of Vec<OsString>.
PathVec_lt(path1, path2) ==
    \E k \in 1..Len(path2) :
        /\ \A j \in 1..(k - 1) : j <= Len(path1) /\ path1[j] = path2[j]
        /\ k - 1 <= Len(path1)
        /\ (k > Len(path1) \/ lex_lt(path1[k], path2[k]))

\* coupled_files.sort_by(|(path1, _), (path2, _)| path1.partial_cmp(path2))
RECURSIVE sort_by_path(_)
sort_by_path(coupled_files) ==
    IF DOMAIN coupled_files = {} THEN <<>>
    ELSE <<<<CHOOSE f \in DOMAIN coupled_files :
                 \A g \in DOMAIN coupled_files \ {f} : PathVec_lt(f, g),
             coupled_files[CHOOSE f \in DOMAIN coupled_files :
                 \A g \in DOMAIN coupled_files \ {f} : PathVec_lt(f, g)]>>>>
         \o sort_by_path(
                [g \in DOMAIN coupled_files
                       \ {CHOOSE f \in DOMAIN coupled_files :
                             \A h \in DOMAIN coupled_files \ {f} :
                                PathVec_lt(f, h)} |->
                    coupled_files[g]])

\* CouplingBuckets::all_files
all_files(buckets) ==
    UNION {DOMAIN buckets[k].couplings : k \in DOMAIN buckets}

\* SerializableCouplingBucketData of one bucket for one file.
bucket_data(bucket, file) ==
    [bucket_start |-> bucket.bucket_start,
     bucket_end |-> (bucket.bucket_start + bucket.bucket_size) - 1,
     activity_bursts |-> bucket.couplings[file].activity_bursts,
     coupled_files |-> sort_by_path(bucket.couplings[file].coupled_files)]

\* CouplingBuckets::file_coupling_data
RECURSIVE file_coupling_data(_, _)
file_coupling_data(buckets, file) ==
    IF buckets = <<>> THEN <<>>
    ELSE (IF file \in DOMAIN Head(buckets).couplings
          THEN <<bucket_data(Head(buckets), file)>> ELSE <<>>)
         \o file_coupling_data(Tail(buckets), file)

\* The first part of CouplingBuckets::new: one empty bucket per bucket number.
empty_buckets(bucketing) ==
    [k \in 1..bucketing.bucket_count |->
        CouplingBucket_new(bucket_start(bucketing, k - 1), bucketing.bucket_size)]

\* The state of gather_coupling once BucketingConfig::new has returned.
coupling_started(tree, cfg, fct, bucketing) ==
    [stage |-> "coupling", tree |-> tree, config |-> cfg, fct |-> fct,
     bucketing |-> bucketing, buckets |-> empty_buckets(bucketing),
     todo |-> DOMAIN fct.file_changes, output |-> None]

\* The state of gather_coupling after a panic: cause is "overflow" for
\* a subtraction below zero in a build with overflow checks, and in a
\* build without them "unwrap" for bucket_for(..).unwrap() on None and
\* "range" for a BTreeMap range whose start is above its end.
coupling_panicked(tree, cfg, fct, cause) ==
    [stage |-> "panic", tree |-> tree, config |-> cfg, fct |-> fct,
     bucketing |-> None, buckets |-> <<>>, todo |-> {}, output |-> None,
     cause |-> cause]

\* BucketingConfig::new computes latest - bucket_size * bucket_count + 1 in
\* u64.  A build with overflow checks panics when the subtraction goes
\* below zero; a build without them wraps, and the wrapped start is zero
\* when the difference is -1 and above every timestamp otherwise, where
\* bucket_for(..).unwrap() panics.
bucketing_outcomes(tree, cfg, fct, earliest, latest) ==
    IF latest >= bucket_size(cfg) * (((latest - earliest) \div bucket_size(cfg)) + 1)
    THEN {coupling_started(tree, cfg, fct,
                           BucketingConfig_new(cfg, earliest, latest))}
    ELSE IF latest + 1
               = bucket_size(cfg) * (((latest - earliest) \div bucket_size(cfg)) + 1)
    THEN {coupling_panicked(tree, cfg, fct, "overflow"),
          coupling_started(tree, cfg, fct,
                           BucketingConfig_new(cfg, earliest, latest))}
    ELSE {coupling_panicked(tree, cfg, fct, "overflow"),
          coupling_panicked(tree, cfg, fct, "unwrap")}

\* file_changes_to_coupling_buckets up to the buckets' creation.
collect_outcomes(tree, cfg, fct) ==
    IF DOMAIN fct.timestamps = {}
    THEN {[stage |-> "done", tree |-> tree, config |-> cfg, fct |-> fct,
           bucketing |-> None, buckets |-> <<>>, todo |-> {},
           output |-> None]}
    ELSE bucketing_outcomes(tree, cfg, fct, Min(DOMAIN fct.timestamps),
                            Max(DOMAIN fct.timestamps))

\* gather_coupling: the timestamps are collected from the tree and the
\* buckets are created.
CollectTimestamps(trees, cfgs) ==
    /\ coupling.stage = "idle"
    /\ \E tree \in trees, cfg \in cfgs :
          coupling' \in collect_outcomes(tree, cfg, FileChangeTimestamps_new(tree))
    /\ UNCHANGED <<hist_vars, dict_vars, git_data, cli, flare>>

\* One turn of "for (file, timestamps) in file_changes.iter()".  The window
\* start burst.start - coupling_time_distance is a u64: below zero it
\* panics, or wraps to a start above the window's end, where range panics.
CoupleFile ==
    /\ coupling.stage = "coupling"
    /\ \E file \in coupling.todo :
          coupling' \in
             IF Min(coupling.fct.file_changes[file])
                    < coupling.config.coupling_time_distance
             THEN {coupling_panicked(coupling.tree, coupling.config,
                                     coupling.fct, "overflow"),
                   coupling_panicked(coupling.tree, coupling.config,
                                     coupling.fct, "range")}
             ELSE {[coupling EXCEPT
                      !.todo = @ \ {file},
                      !.buckets = couple_bursts(@, coupling.config,
                                      coupling.bucketing, coupling.fct, file,
                                      from_events(coupling.fct.file_changes[file],
                                                  coupling.config.min_activity_gap))]}
    /\ UNCHANGED <<hist_vars, dict_vars, git_data, cli, flare>>

\* The end of CouplingBuckets::new: every bucket is filtered.
FilterBuckets ==
    /\ coupling.stage = "coupling"
    /\ coupling.todo = {}
    /\ coupling' = [coupling EXCEPT
                       !.stage = "filtered",
                       !.buckets = [k \in DOMAIN @ |->
                                       filter_by(@[k], coupling.config.min_bursts,
                                                 coupling.config.min_coupling_ratio)]]
    /\ UNCHANGED <<hist_vars, dict_vars, git_data, cli, flare>>

\* The end of gather_coupling: the "coupling" data of every file of the
\* buckets that is in the tree, and the "coupling" metadata.
ApplyBuckets ==
    /\ coupling.stage = "filtered"
    /\ coupling' = [coupling EXCEPT
                       !.stage = "done",
                       !.output = Some(
                           [data |-> [file \in all_files(coupling.buckets)
                                               \cap DOMAIN coupling.tree |->
                                         file_coupling_data(coupling.buckets, file)],
                            metadata |-> [buckets |-> coupling.bucketing,
                                          config |-> coupling.config]])]
    /\ UNCHANGED <<hist_vars, dict_vars, git_data, cli, flare>>

\* The path components a, b, x, y and z.
Comp_a == <<97>>
Comp_b == <<98>>
Comp_x == <<120>>
Comp_y == <<121>>
Comp_z == <<122>>

\* The files a/x, a/b/y, a/b/z and b/x.
CouplingPaths ==
    {<<Comp_a, Comp_x>>, <<Comp_a, Comp_b, Comp_y>>,
     <<Comp_a, Comp_b, Comp_z>>, <<Comp_b, Comp_x>>}

\* A git activity entry of a file, as far as coupling reads it.
Change(commit_time, lines_added, lines_deleted) ==
    [commit_time |-> commit_time, lines_added |-> lines_added,
     lines_deleted |-> lines_deleted]

\* The nodes of a file: its lines of code, none without loc data, and its
\* git activity.
CouplingNodes ==
    {[loc |-> Some(3), activity |-> <<Change(200000, 1, 0)>>],
     [loc |-> Some(3), activity |-> <<Change(200010, 0, 1)>>],
     [loc |-> Some(3), activity |-> <<Change(200100, 1, 0), Change(200000, 1, 1)>>],
     [loc |-> Some(3), activity |-> <<Change(200005, 2, 0), Change(200000, 1, 0)>>],
     [loc |-> Some(3), activity |-> <<Change(290000, 1, 0), Change(203602, 1, 0),
                                      Change(203598, 1, 0)>>],
     [loc |-> Some(3), activity |-> <<Change(200000, 0, 0)>>],
     [loc |-> Some(0), activity |-> <<Change(200000, 1, 0)>>],
     [loc |-> None, activity |-> <<Change(200010, 1, 0)>>],
     [loc |-> Some(3), activity |-> <<Change(86404, 1, 0), Change(5, 1, 0)>>],
     [loc |-> Some(3), activity |-> <<Change(86399, 1, 0)>>]}

\* The trees of one to MaxFiles files.
CouplingTrees ==
    UNION {[files -> CouplingNodes] :
              files \in {S \in SUBSET CouplingPaths :
                            Cardinality(S) >= 1 /\ Cardinality(S) <= MaxFiles}}

\* The configurations: buckets of a day, bursts closed by a gap of more
\* than 5 seconds, a window 10 seconds wide on each side of a burst.
CouplingConfigs ==
    [bucket_days : {1}, min_bursts : {1, 2},
     min_coupling_ratio : {<<1, 2>>, <<1, 1>>},
     min_activity_gap : {5}, coupling_time_distance : {10},
     min_distance : {0, 2}, max_common_roots : {None, Some(1)}]

InitCoupling ==
    /\ InitHistory([include_merges : {TRUE}, earliest_time : {0}])
    /\ InitDictionary

NextCoupling ==
    \/ CollectTimestamps(CouplingTrees, CouplingConfigs)
    \/ CoupleFile
    \/ FilterBuckets
    \/ ApplyBuckets

SpecCoupling == InitCoupling /\ [][NextCoupling]_vars

\* Every file has been taken by CouplingBuckets::new and no bucket has
\* been filtered yet.
AllCoupled == coupling.stage = "coupling" /\ coupling.todo = {}

\* The changed files and the bursts of one of them.
ChangedFiles == DOMAIN coupling.fct.file_changes
BurstsOf(F) ==
    Range(from_events(coupling.fct.file_changes[F],
                      coupling.config.min_activity_gap))

\* The burst's start lies in bucket k.
StartsIn(burst, k) ==
    /\ coupling.buckets[k].bucket_start <= burst.start
    /\ burst.start < coupling.buckets[k].bucket_start
                         + coupling.buckets[k].bucket_size

\* G changed at a time of the half-open window of the burst.
ChangedAround(G, burst) ==
    \E t \in coupling.fct.file_changes[G] :
        /\ burst.start - coupling.config.coupling_time_distance <= t
        /\ t < burst.end + coupling.config.coupling_time_distance

\* count(F->G) in bucket k: zero without a record or an entry.
CountIn(buckets, k, F, G) ==
    IF F \in DOMAIN buckets[k].couplings
    THEN IF G \in DOMAIN buckets[k].couplings[F].coupled_files
         THEN buckets[k].couplings[F].coupled_files[G] ELSE 0
    ELSE 0

\* activity_bursts(F) in bucket k: zero without a record.
BurstsIn(buckets, k, F) ==
    IF F \in DOMAIN buckets[k].couplings
    THEN buckets[k].couplings[F].activity_bursts ELSE 0

\* The length of the longest shared prefix of the components of two paths.
SharedPrefix(F, G) ==
    Max({n \in 0..Len(F) :
            n <= Len(G) /\ \A i \in 1..n : F[i] = G[i]})

\* The distance of two paths: none without a common root.
DistanceOf(F, G) ==
    IF SharedPrefix(F, G) = 0 THEN None
    ELSE Some(Max({Len(F), Len(G)}) - SharedPrefix(F, G))

\* The distance and common-root predicate on a pair of files.
PairAllowed(F, G) ==
    /\ coupling.config.max_common_roots = None
       \/ SharedPrefix(F, G) <= coupling.config.max_common_roots[1]
    /\ DistanceOf(F, G) = None
       \/ DistanceOf(F, G)[1] >= coupling.config.min_distance

\* C13: the filtering step keeps the record of a source file F in a bucket
\* exactly when its activity_bursts there is at least min_bursts, and
\* keeps G in F's coupled_files exactly when count(F->G) / activity_bursts(F)
\* is at least min_coupling_ratio, a ratio equal to the minimum included;
\* the counts are unchanged, and each source file is filtered on its own
\* count and bursts only.
C13_FilterByBurstsAndRatio ==
    [][(coupling.stage = "coupling" /\ coupling'.stage = "filtered") =>
          \A k \in DOMAIN coupling.buckets :
             \A F \in ChangedFiles :
                /\ F \in DOMAIN coupling'.buckets[k].couplings
                     <=> /\ F \in DOMAIN coupling.buckets[k].couplings
                         /\ BurstsIn(coupling.buckets, k, F)
                                >= coupling.config.min_bursts
                /\ F \in DOMAIN coupling'.buckets[k].couplings =>
                      /\ BurstsIn(coupling'.buckets, k, F)
                             = BurstsIn(coupling.buckets, k, F)
                      /\ \A G \in ChangedFiles :
                            /\ G \in DOMAIN coupling'.buckets[k].couplings[F].coupled_files
                                 <=> /\ CountIn(coupling.buckets, k, F, G) > 0
                                     /\ CountIn(coupling.buckets, k, F, G)
                                            * coupling.config.min_coupling_ratio[2]
                                         >= coupling.config.min_coupling_ratio[1]
                                            * BurstsIn(coupling.buckets, k, F)
                            /\ G \in DOMAIN coupling'.buckets[k].couplings[F].coupled_files
                                 => CountIn(coupling'.buckets, k, F, G)
                                        = CountIn(coupling.buckets, k, F, G)]_vars

\* After filtering with a minimum ratio of one, G lists F with a count
\* equal to its bursts, and F, with two bursts in the bucket, has a record
\* that does not list G.
C13_Witness ==
    /\ coupling.stage = "filtered"
    /\ coupling.config.min_coupling_ratio = <<1, 1>>
    /\ \E k \in DOMAIN coupling.buckets :
          \E F \in DOMAIN coupling.buckets[k].couplings :
             \E G \in DOMAIN coupling.buckets[k].couplings \ {F} :
                /\ CountIn(coupling.buckets, k, G, F) = 1
                /\ BurstsIn(coupling.buckets, k, G) = 1
                /\ BurstsIn(coupling.buckets, k, F) = 2
                /\ G \notin DOMAIN coupling.buckets[k].couplings[F].coupled_files
                /\ \E b \in BurstsOf(F) : ChangedAround(G, b) /\ PairAllowed(F, G)

\* C14: a file G changed inside a burst window of F is counted as coupled
\* to F exactly when max_common_roots is none or at least the number of
\* their common roots, and their distance is none or at least min_distance;
\* the common roots are the longest shared prefix of the path components,
\* and the distance, none without a common root, is the greater depth less
\* the common roots.
C14_DistanceAndCommonRoots ==
    AllCoupled =>
       \A F \in ChangedFiles :
          \A G \in ChangedFiles \ {F} :
             (\E b \in BurstsOf(F) : ChangedAround(G, b)) =>
                ((\E k \in DOMAIN coupling.buckets :
                      CountIn(coupling.buckets, k, F, G) > 0)
                   <=> PairAllowed(F, G))

\* With a minimum distance of two, a file with no root in common with F
\* is counted for F.
C14_Witness ==
    /\ AllCoupled
    /\ coupling.config.min_distance = 2
    /\ \E F \in ChangedFiles :
          \E G \in ChangedFiles \ {F} :
             /\ SharedPrefix(F, G) = 0
             /\ \E k \in DOMAIN coupling.buckets :
                   CountIn(coupling.buckets, k, F, G) > 0

\* C15: two files committed once each, coupling_time_distance seconds
\* apart, that the distance and common-root predicate allows, each count
\* the other.
C15_CoupledAtTheOverlap ==
    AllCoupled =>
       \A F \in ChangedFiles :
          \A G \in ChangedFiles \ {F} :
             (/\ Cardinality(coupling.fct.file_changes[F]) = 1
              /\ Cardinality(coupling.fct.file_changes[G]) = 1
              /\ \E t \in coupling.fct.file_changes[F] :
                    t + coupling.config.coupling_time_distance
                       \in coupling.fct.file_changes[G]
              /\ PairAllowed(F, G))
             => /\ \E k \in DOMAIN coupling.buckets :
                      CountIn(coupling.buckets, k, F, G) > 0
                /\ \E k \in DOMAIN coupling.buckets :
                      CountIn(coupling.buckets, k, G, F) > 0

\* C19: before filtering, count(F->G) in bucket k is the number of bursts
\* of F that start in bucket k and in whose half-open window
\* [start - coupling_time_distance, end + coupling_time_distance) a file
\* G other than F, allowed by the distance and common-root predicate,
\* changed; a burst counts G once however often G changed in its window,
\* and activity_bursts(F) in bucket k is the number of bursts of F that
\* start there.
C19_CountsPerBurstWindow ==
    AllCoupled =>
       \A k \in DOMAIN coupling.buckets :
          \A F \in ChangedFiles :
             /\ BurstsIn(coupling.buckets, k, F)
                   = Cardinality({b \in BurstsOf(F) : StartsIn(b, k)})
             /\ F \in DOMAIN coupling.buckets[k].couplings =>
                   F \notin DOMAIN coupling.buckets[k].couplings[F].coupled_files
             /\ \A G \in ChangedFiles \ {F} :
                   CountIn(coupling.buckets, k, F, G)
                      = Cardinality({b \in BurstsOf(F) :
                                        /\ StartsIn(b, k)
                                        /\ PairAllowed(F, G)
                                        /\ ChangedAround(G, b)})

\* G changed twice inside the window of the one burst of F, once at the
\* window's start, and F counts G once.
C19_Witness ==
    /\ AllCoupled
    /\ \E F \in ChangedFiles :
          \E G \in ChangedFiles \ {F} :
             /\ Cardinality(BurstsOf(F)) = 1
             /\ \E b \in BurstsOf(F) :
                   /\ Cardinality({t \in coupling.fct.file_changes[G] :
                         /\ b.start - coupling.config.coupling_time_distance <= t
                         /\ t < b.end + coupling.config.coupling_time_distance}) = 2
                   /\ b.start - coupling.config.coupling_time_distance
                         \in coupling.fct.file_changes[G]
             /\ \E k \in DOMAIN coupling.buckets :
                   CountIn(coupling.buckets, k, F, G) = 1

(***************************************************************************)
(* The since specification: GitFileHistory::new with and without a         *)
(* since-time, over commits made before, at and after that time.           *)
(***************************************************************************)
SinceInputs ==
    [max_commits |-> MaxCommits,
     diffs |-> {<<>>,
                <<FileChange("a", None, "Add", 1, 0)>>,
                <<FileChange("b", Some("a"), "Rename", 0, 0)>>},
     times |-> {<<40, 40>>, <<50, 50>>, <<60, 60>>},
     people |-> {<<TheUser, TheUser, <<>> >>}]

InitSince ==
    /\ InitHistory([include_merges : {TRUE}, earliest_time : {0, 50}])
    /\ InitDictionary

NextSince ==
    \/ IteratorNext(SinceInputs)
    \/ IteratorEnd
    \/ Attribute
    \/ HistoryBuilt

SpecSince == InitSince /\ [][NextSince]_vars

\* The revwalk has returned a commit that the iterator did not yield.
CutShort == revwalk.walked > Len(log_entries)

\* C17: the iterator yields only commits with commit_time >= since; it is
\* cut short exactly at the first commit of the walk with
\* commit_time < since, which ends the iteration; and from then on no
\* commit is yielded and none is registered, the commits still to walk
\* included, whatever their commit_time.
C17_SinceEndsTheWalk ==
    /\ [](/\ \A i \in DOMAIN log_entries :
                log_entries[i].ok
                   => log_entries[i].commit_time >= config.earliest_time
          /\ CutShort <=> (/\ revwalk.last_time # None
                           /\ revwalk.last_time[1] < config.earliest_time)
          /\ CutShort => pc # "iterating")
    /\ [][CutShort' => /\ log_entries' = log_entries
                       /\ rev_changes' = rev_changes
                       /\ CutShort => revwalk' = revwalk]_vars

\* The walk was cut short at its second commit, after yielding a commit
\* made exactly at the since-time, with a parent still to walk, and the
\* history has been built from the one yielded commit.
C17_Witness ==
    /\ CutShort
    /\ config.earliest_time = 50
    /\ revwalk.walked = 2
    /\ revwalk.pending # {}
    /\ Len(log_entries) = 1
    /\ log_entries[1].commit_time = 50
    /\ log_entries[1].file_changes # <<>>
    /\ pc = "built"

(***************************************************************************)
(* The command line specification: main from the parsed arguments to the   *)
(* JSON written by run.  cli keeps the arguments, the position in main     *)
(* and what the process has done to the outside: the output file created,  *)
(* the directory walk started, the JSON written.                           *)
(***************************************************************************)
\* A validation that misses the detailed-git flag.
args_conflict_coupling_only(args) == args.no_git /\ args.coupling

\* The custom validation of main: the cases of custom_validation_conflict.
args_conflict(args) ==
    args.no_git /\ (args.coupling \/ args.no_detailed_git)

\* FeatureFlags as main builds them.
FeatureFlags(args) ==
    [git |-> ~args.no_git,
     coupling |-> args.coupling,
     git_details |-> ~(args.no_detailed_git \/ args.no_git),
     file_stats |-> ~args.no_file_stats]

\* calculator_names as main builds them.
calculator_names(args) ==
    <<"loc", "indentation">>
    \o (IF ~args.no_git THEN <<"git">> ELSE <<>>)
    \o (IF ~args.no_file_stats THEN <<"file_stats">> ELSE <<>>)

\* The logic errors run bails on before walking.
logic_error(names, features) ==
    \/ "git" \in Range(names) /\ ~features.git
    \/ "file_stats" \in Range(names) /\ ~features.file_stats

\* The keys of the root metadata after run: the git calculator adds its
\* users under "git", gather_coupling adds "coupling" unless no file of
\* the tree has a timestamp.
metadata_keys(args, activity) ==
    (IF "git" \in Range(calculator_names(args)) THEN {"git"} ELSE {})
    \cup (IF args.coupling /\ activity THEN {"coupling"} ELSE {})

\* The orders in which a HashMap of these keys can be iterated.
iteration_orders(keys) ==
    {order \in [1..Cardinality(keys) -> keys] : Range(order) = keys}

\* The serialized PolyglotData as far as its layout goes: the fields in
\* the order of the struct, the metadata keys in the order the map gave.
to_writer(order) ==
    [fields |-> <<"version", "name", "id", "tree", "metadata">>,
     metadata |-> order]

\* The runs of one command line on one unchanged tree and repository.
MaxRuns == 2

\* The command lines: the four feature flags, with and without --output.
CliArgs ==
    [no_git : BOOLEAN, coupling : BOOLEAN, no_detailed_git : BOOLEAN,
     no_file_stats : BOOLEAN, output : {None, Some("out")}]

\* Cli::from_args and the custom validation: a conflict prints the error
\* and exits the process.  activity tells whether a file of the scanned
\* repository has git activity.
ParseArgs ==
    /\ cli.pc = "idle"
    /\ \E args \in CliArgs :
          \E activity \in BOOLEAN :
             cli' = [pc |-> IF args_conflict(args) THEN "exited" ELSE "validated",
                     args |-> args,
                     activity |-> activity,
                     file_created |-> FALSE,
                     walk_started |-> FALSE,
                     written |-> FALSE,
                     outputs |-> <<>>]
    /\ UNCHANGED <<hist_vars, dict_vars, git_data, coupling, flare>>

\* main up to the writer: File::create(output) makes or truncates the
\* file, or fails and main returns the error; stdout without --output.
CreateOutput ==
    /\ cli.pc = "validated"
    /\ \E created \in (IF cli.args.output = None THEN {FALSE} ELSE BOOLEAN) :
          cli' = [cli EXCEPT
                     !.pc = IF cli.args.output # None /\ ~created
                            THEN "failed" ELSE "opened",
                     !.file_created = created]
    /\ UNCHANGED <<hist_vars, dict_vars, git_data, coupling, flare>>

\* run up to the end of walk_directory: a logic error bails before the
\* walk, and a walk that has started returns the data, returns an error,
\* or panics: on an entry the walker cannot read (expect("File error!")),
\* on a parent that is not found, or inside a calculator.
WalkDirectory ==
    /\ cli.pc = "opened"
    /\ IF logic_error(calculator_names(cli.args), FeatureFlags(cli.args))
       THEN cli' = [cli EXCEPT !.pc = "failed"]
       ELSE \E outcome \in {"walked", "failed", "panic"} :
               cli' = [cli EXCEPT !.pc = outcome,
                                  !.walk_started = TRUE]
    /\ UNCHANGED <<hist_vars, dict_vars, git_data, coupling, flare>>

\* The rest of run: metadata, coupling, postprocessing and
\* serde_json::to_writer(out, &polyglot_data), which writes the metadata
\* in the iteration order of its HashMap.  Each of the four steps returns
\* its error with '?', and run ends without the JSON written;
\* gather_coupling, run for --coupling, can also panic when the files
\* have git activity.
SaveJson ==
    /\ cli.pc = "walked"
    /\ \E outcome \in {"done", "failed"} \cup
                       (IF cli.args.coupling /\ cli.activity
                        THEN {"panic"} ELSE {}) :
          IF outcome = "done"
          THEN \E order \in iteration_orders(metadata_keys(cli.args, cli.activity)) :
                  cli' = [cli EXCEPT !.pc = "done", !.written = TRUE,
                                     !.outputs = Append(@, to_writer(order))]
          ELSE cli' = [cli EXCEPT !.pc = outcome]
    /\ UNCHANGED <<hist_vars, dict_vars, git_data, coupling, flare>>

\* The same command line is run again on the unchanged tree and
\* repository: it passes the same validation.
RunAgain ==
    /\ cli.pc = "done"
    /\ Len(cli.outputs) < MaxRuns
    /\ cli' = [cli EXCEPT !.pc = "validated"]
    /\ UNCHANGED <<hist_vars, dict_vars, git_data, coupling, flare>>

InitCli ==
    /\ InitHistory([include_merges : {TRUE}, earliest_time : {0}])
    /\ InitDictionary

NextCli ==
    \/ ParseArgs
    \/ CreateOutput
    \/ WalkDirectory
    \/ SaveJson
    \/ RunAgain

SpecCli == InitCli /\ [][NextCli]_vars

\* The flag combinations the scanner must reject.
InvalidFlags(args) ==
    \/ args.coupling /\ args.no_git
    \/ args.no_detailed_git /\ args.no_git

\* C18: a command line asking for coupling with git disabled, or giving
\* the detailed-git flag with git disabled, is rejected before any
\* scanning: the process exits at the validation, and no directory walk
\* has started, no output file has been created and nothing has been
\* written.
C18_InvalidFlagsRejected ==
    (cli.pc # "idle" /\ InvalidFlags(cli.args)) =>
        /\ cli.pc = "exited"
        /\ ~cli.walk_started
        /\ ~cli.file_created
        /\ ~cli.written

\* The detailed-git flag with git disabled, without coupling and with an
\* output file named, has been rejected.
C18_Witness ==
    /\ cli.pc = "exited"
    /\ cli.args.no_git
    /\ cli.args.no_detailed_git
    /\ ~cli.args.coupling
    /\ cli.args.output # None

\* C16: the runs of one command line on an unchanged tree and repository,
\* with a fixed id, write the same JSON: the order of the root metadata
\* keys does not depend on the iteration order of a hash map.
C16_RunsWriteTheSameJson ==
    cli.pc # "idle" =>
        \A i, j \in DOMAIN cli.outputs : cli.outputs[i] = cli.outputs[j]

(***************************************************************************)
(* flare.rs: the tree of FlareTreeNode.  A node is a record of its name,   *)
(* its is_file flag, its children in insertion order and its indicator     *)
(* data; a mutable reference to a node inside a tree is the sequence of    *)
(* child indexes that leads to it.                                         *)
(***************************************************************************)
MaxNodes == 4

FlareTreeNode_new(name, is_file) ==
    [name |-> name, is_file |-> is_file, children |-> <<>>, data |-> EmptyMap]

\* append_child without its assertion.
append_child_unchecked(node, child) ==
    [aborted |-> FALSE, node |-> [node EXCEPT !.children = Append(@, child)]]

\* append_child: the assertion aborts on a file node before the push.
append_child(node, child) ==
    IF node.is_file
    THEN [aborted |-> TRUE, node |-> node]
    ELSE [aborted |-> FALSE, node |-> [node EXCEPT !.children = Append(@, child)]]

\* get_in: children.iter().find gives the first child of that name.
RECURSIVE get_in(_, _)
get_in(node, path) ==
    IF path = <<>> THEN Some(node)
    ELSE IF ~node.is_file
         THEN LET matches == {i \in DOMAIN node.children :
                                 node.children[i].name = Head(path)}
              IN  IF matches = {} THEN None
                  ELSE get_in(node.children[Min(matches)], Tail(path))
         ELSE None

\* get_in_mut: the same search, giving the place of the node in the tree;
\* the node read through the reference is the one get_in finds.
RECURSIVE get_in_mut(_, _)
get_in_mut(node, path) ==
    IF path = <<>> THEN Some(<<>>)
    ELSE IF ~node.is_file
         THEN LET matches == {i \in DOMAIN node.children :
                                 node.children[i].name = Head(path)}
              IN  IF matches = {} THEN None
                  ELSE LET below == get_in_mut(node.children[Min(matches)], Tail(path))
                       IN  IF below = None THEN None
                           ELSE Some(<<Min(matches)>> \o below[1])
         ELSE None

\* The tree after a write through a mutable reference.
RECURSIVE deref_mut(_, _, _)
deref_mut(node, place, written) ==
    IF place = <<>> THEN written
    ELSE [node EXCEPT !.children[Head(place)] = deref_mut(@, Tail(place), written)]

FlareNames == {"a", "b"}

\* The paths of at most n names.
RECURSIVE NamePaths(_)
NamePaths(n) ==
    IF n = 0 THEN {<<>>}
    ELSE NamePaths(n - 1) \cup
         {<<name>> \o p : name \in FlareNames, p \in {q \in NamePaths(n - 1) : Len(q) = n - 1}}

\* let mut root = FlareTreeNode::new(name, is_file)
NewRoot ==
    /\ flare.stage = "idle"
    /\ \E name \in FlareNames, is_file \in BOOLEAN :
          flare' = [stage |-> "tree",
                    tree |-> FlareTreeNode_new(name, is_file),
                    detached |-> None,
                    created |-> 1,
                    through_children_mut |-> FALSE,
                    aborted |-> FALSE,
                    last |-> None]
    /\ UNCHANGED <<hist_vars, dict_vars, git_data, coupling, cli>>

\* let mut child = FlareTreeNode::new(name, is_file), not yet in the tree
NewDetached ==
    /\ flare.stage = "tree"
    /\ ~flare.aborted
    /\ flare.detached = None
    /\ flare.created < MaxNodes
    /\ \E name \in FlareNames, is_file \in BOOLEAN :
          flare' = [flare EXCEPT !.detached = Some(FlareTreeNode_new(name, is_file)),
                                 !.created = @ + 1,
                                 !.last = None]
    /\ UNCHANGED <<hist_vars, dict_vars, git_data, coupling, cli>>

\* child.append_child(FlareTreeNode::new(name, is_file)) on a node of the
\* subtree that is not yet in the tree
AppendToDetached ==
    /\ flare.stage = "tree"
    /\ ~flare.aborted
    /\ flare.detached # None
    /\ flare.created < MaxNodes
    /\ \E path \in NamePaths(MaxNodes - 1), name \in FlareNames, is_file \in BOOLEAN :
          LET place == get_in_mut(flare.detached[1], path)
          IN  /\ place # None
              /\ LET target == get_in(flare.detached[1], path)[1]
                     result == append_child(target, FlareTreeNode_new(name, is_file))
                 IN  flare' = [flare EXCEPT
                         !.detached = Some(deref_mut(flare.detached[1], place[1], result.node)),
                         !.created = @ + 1,
                         !.aborted = result.aborted,
                         !.last = Some([on_file |-> target.is_file, path |-> path,
                                        in_tree |-> FALSE])]
    /\ UNCHANGED <<hist_vars, dict_vars, git_data, coupling, cli>>

\* tree.get_in_mut(path).unwrap().append_child(child): the subtree built
\* apart moves into the tree
AppendChild ==
    /\ flare.stage = "tree"
    /\ ~flare.aborted
    /\ flare.detached # None
    /\ \E path \in NamePaths(MaxNodes - 1) :
          LET place == get_in_mut(flare.tree, path)
          IN  /\ place # None
              /\ LET target == get_in(flare.tree, path)[1]
                     result == append_child(target, flare.detached[1])
                 IN  flare' = [flare EXCEPT
                         !.tree = deref_mut(flare.tree, place[1], result.node),
                         !.detached = IF result.aborted THEN @ ELSE None,
                         !.aborted = result.aborted,
                         !.last = Some([on_file |-> target.is_file, path |-> path,
                                        in_tree |-> TRUE])]
    /\ UNCHANGED <<hist_vars, dict_vars, git_data, coupling, cli>>

\* node.get_children_mut().push(FlareTreeNode::new(name, is_file)) on a
\* node of the tree: the vector of children is handed out as it is, and
\* nothing looks at is_file.
GetChildrenMut ==
    /\ flare.stage = "tree"
    /\ ~flare.aborted
    /\ flare.created < MaxNodes
    /\ \E path \in NamePaths(MaxNodes - 1), name \in FlareNames, is_file \in BOOLEAN :
          LET place == get_in_mut(flare.tree, path)
          IN  /\ place # None
              /\ LET target == get_in(flare.tree, path)[1]
                     pushed == [target EXCEPT !.children =
                                   Append(@, FlareTreeNode_new(name, is_file))]
                 IN  flare' = [flare EXCEPT
                         !.tree = deref_mut(flare.tree, place[1], pushed),
                         !.created = @ + 1,
                         !.through_children_mut = TRUE,
                         !.last = None]
    /\ UNCHANGED <<hist_vars, dict_vars, git_data, coupling, cli>>

\* node.indicators_mut().indentation = Some(..) on a node of the tree, as
\* the indentation calculator does: only the data of the node changes.
IndicatorsMut ==
    /\ flare.stage = "tree"
    /\ ~flare.aborted
    /\ \E path \in NamePaths(MaxNodes - 1) :
          LET place == get_in_mut(flare.tree, path)
          IN  /\ place # None
              /\ LET target == get_in(flare.tree, path)[1]
                     set == [target EXCEPT !.data =
                                [n \in DOMAIN @ \cup {"indentation"} |-> Some(1)]]
                 IN  flare' = [flare EXCEPT
                         !.tree = deref_mut(flare.tree, place[1], set),
                         !.last = None]
    /\ UNCHANGED <<hist_vars, dict_vars, git_data, coupling, cli>>

(***************************************************************************)
(* file_walker.rs: the walk of a directory.  A calculator is a record of   *)
(* its name and of the number of calculate calls it has served; what a     *)
(* call returns ("some", "none" or "err") is an input of the walk.         *)
(***************************************************************************)
\* The loop of apply_calculators_to_node that gives up at the first error.
apply_calculators_until_error(node, path, tics, outcomes) ==
    LET called == {i \in DOMAIN tics : \A j \in 1..(i - 1) : outcomes[j] # "err"}
        added == {i \in called : outcomes[i] = "some"}
        added_names == {tics[i].name : i \in added}
    IN  [node |-> [node EXCEPT !.data =
                     [n \in DOMAIN node.data \cup added_names |->
                        IF n \in added_names
                        THEN tics[Max({i \in added : tics[i].name = n})].count + 1
                        ELSE node.data[n]]],
         tics |-> [i \in DOMAIN tics |->
                     IF i \in called THEN [tics[i] EXCEPT !.count = @ + 1] ELSE tics[i]],
         calls |-> [i \in 1..Cardinality(called) |->
                     [name |-> tics[i].name, path |-> path, outcome |-> outcomes[i]]]]

\* apply_calculators_to_node: every calculator is called, in order; a
\* result is stored under the calculator's name, an error is only logged.
apply_calculators_to_node(node, path, tics, outcomes) ==
    LET added == {i \in DOMAIN tics : outcomes[i] = "some"}
        added_names == {tics[i].name : i \in added}
    IN  [node |-> [node EXCEPT !.data =
                     [n \in DOMAIN node.data \cup added_names |->
                        IF n \in added_names
                        THEN tics[Max({i \in added : tics[i].name = n})].count + 1
                        ELSE node.data[n]]],
         tics |-> [i \in DOMAIN tics |-> [tics[i] EXCEPT !.count = @ + 1]],
         calls |-> [i \in DOMAIN tics |->
                     [name |-> tics[i].name, path |-> path, outcome |-> outcomes[i]]]]

\* walk_tree_walker up to the loop: the root node, named flare::ROOT_NAME,
\* and its indicators.
\* The walker is what the sorted walk yields after the root: the path of
\* each entry below the root and what the entry is ("other" is neither a
\* file nor a directory, "error" is an entry the walker could not read);
\* names are the registered calculators, in registration order.
StartWalk ==
    /\ flare.stage = "idle"
    /\ \E walker \in
            { << [path |-> <<"a">>, kind |-> "dir"],
                 [path |-> <<"a", "b">>, kind |-> "file"],
                 [path |-> <<"b">>, kind |-> "file"] >>,
              << [path |-> <<"a">>, kind |-> "file"],
                 [path |-> <<"b">>, kind |-> "other"],
                 [path |-> <<"c">>, kind |-> "dir"] >>,
              << [path |-> <<"a">>, kind |-> "dir"],
                 [path |-> <<"a", "a">>, kind |-> "error"],
                 [path |-> <<"b">>, kind |-> "file"] >> },
          names \in {<<"loc">>, <<"loc", "git">>, <<"git", "indentation">>} :
         \E outcomes \in [DOMAIN names -> {"some", "none", "err"}] :
            LET tics == [i \in DOMAIN names |-> [name |-> names[i], count |-> 0]]
                applied == apply_calculators_to_node(
                               FlareTreeNode_new("<root>", FALSE), <<>>, tics, outcomes)
            IN  flare' = [stage |-> "walking",
                          walker |-> walker,
                          pos |-> 0,
                          tree |-> applied.node,
                          tics |-> applied.tics,
                          calls |-> applied.calls]
    /\ UNCHANGED <<hist_vars, dict_vars, git_data, coupling, cli>>

\* One turn of the loop of walk_tree_walker: an entry the walker could not
\* read panics, an entry that is a file or a directory becomes a node, gets
\* its indicators and is appended to its parent, any other entry is skipped.
WalkEntry ==
    /\ flare.stage = "walking"
    /\ flare.pos < Len(flare.walker)
    /\ \E outcomes \in [DOMAIN flare.tics -> {"some", "none", "err"}] :
          LET entry == flare.walker[flare.pos + 1]
              stepped == [flare EXCEPT !.pos = @ + 1]
          IN  IF entry.kind = "error"
              THEN flare' = [stepped EXCEPT !.stage = "panic"]
              ELSE IF entry.kind \notin {"dir", "file"}
              THEN flare' = stepped
              ELSE LET f == FlareTreeNode_new(entry.path[Len(entry.path)],
                                              entry.kind = "file")
                       applied == apply_calculators_to_node(f, entry.path,
                                                            flare.tics, outcomes)
                       new_parent == SubSeq(entry.path, 1, Len(entry.path) - 1)
                       parent == get_in_mut(flare.tree, new_parent)
                       visited == [stepped EXCEPT !.tics = applied.tics,
                                                  !.calls = @ \o applied.calls]
                   IN  IF parent = None
                       THEN flare' = [visited EXCEPT !.stage = "panic"]
                       ELSE LET result == append_child(get_in(flare.tree, new_parent)[1],
                                                       applied.node)
                            IN  IF result.aborted
                                THEN flare' = [visited EXCEPT !.stage = "panic"]
                                ELSE flare' = [visited EXCEPT !.tree =
                                         deref_mut(flare.tree, parent[1], result.node)]
    /\ UNCHANGED <<hist_vars, dict_vars, git_data, coupling, cli>>

\* The walker is exhausted: walk_tree_walker returns the tree.
WalkFinished ==
    /\ flare.stage = "walking"
    /\ flare.pos = Len(flare.walker)
    /\ flare' = [flare EXCEPT !.stage = "walked"]
    /\ UNCHANGED <<hist_vars, dict_vars, git_data, coupling, cli>>

\* A tree is built by hand, with new and append_child or through the
\* mutable accessors of a node, or by a walk.
InitFlare ==
    /\ InitHistory([include_merges : {TRUE}, earliest_time : {0}])
    /\ InitDictionary

NextFlare ==
    \/ NewRoot
    \/ NewDetached
    \/ AppendToDetached
    \/ AppendChild
    \/ GetChildrenMut
    \/ IndicatorsMut
    \/ StartWalk
    \/ WalkEntry
    \/ WalkFinished

SpecFlare == InitFlare /\ [][NextFlare]_vars

\* gather_coupling has collected timestamps from the tree.
Collected ==
    /\ coupling.stage \in {"coupling", "filtered", "done", "panic"}
    /\ DOMAIN coupling.fct.timestamps # {}

\* The earliest and latest collected timestamps and the layout computed
\* from them in the integers.
Earliest == Min(DOMAIN coupling.fct.timestamps)
Latest == Max(DOMAIN coupling.fct.timestamps)
SizeOfBucket == coupling.config.bucket_days * SecondsPerDay
CountOfBuckets == ((Latest - Earliest) \div SizeOfBucket) + 1
FirstStart == (Latest - SizeOfBucket * CountOfBuckets) + 1

\* C28: for any timestamps and bucket_days >= 1 the coupling computation
\* never underflows: bucket_size * bucket_count <= latest + 1 where
\* first_bucket_start is computed, coupling_time_distance <= burst.start
\* where the window start is computed, and no subtraction panics or wraps.
C28_NoUnderflow ==
    Collected =>
        /\ SizeOfBucket * CountOfBuckets <= Latest + 1
        /\ \A F \in ChangedFiles :
              \A b \in BurstsOf(F) :
                 coupling.config.coupling_time_distance <= b.start
        /\ coupling.stage # "panic"

\* C21: for any earliest <= latest the bucket layout has
\* bucket_count = floor((latest - earliest) / bucket_size) + 1 and
\* first_bucket_start = latest - bucket_size * bucket_count + 1, the latest
\* timestamp is the last second of the last bucket and the earliest
\* timestamp lies in bucket 0.
C21_BucketLayout ==
    Collected =>
        /\ coupling.bucketing # None
        /\ coupling.bucketing.bucket_size = SizeOfBucket
        /\ coupling.bucketing.bucket_count = CountOfBuckets
        /\ coupling.bucketing.first_bucket_start = FirstStart
        /\ Latest = (coupling.bucketing.first_bucket_start
                       + coupling.bucketing.bucket_count
                         * coupling.bucketing.bucket_size) - 1
        /\ coupling.bucketing.first_bucket_start <= Earliest
        /\ Earliest < coupling.bucketing.first_bucket_start
                         + coupling.bucketing.bucket_size
        /\ bucket_for(coupling.bucketing, Earliest) = Some(0)

\* The times a bucket lookup is tried on: the collected timestamps and
\* the seconds on both sides of every bucket's start and end.
LookupTimes ==
    DOMAIN coupling.fct.timestamps
    \cup UNION {{FirstStart + k * SizeOfBucket - 1, FirstStart + k * SizeOfBucket,
                 FirstStart + k * SizeOfBucket + 1} : k \in 0..CountOfBuckets}

\* C22: bucket_for(t) is Some(k) exactly when t lies in
\* [first_start + k * bucket_size, first_start + (k + 1) * bucket_size - 1]
\* for a k below bucket_count, and None before the first and after the
\* last bucket; every collected timestamp has exactly one bucket, and the
\* lookup of a burst's bucket in CouplingBuckets::new never fails.
C22_BucketLookup ==
    Collected =>
        /\ coupling.stage = "panic" => coupling.cause # "unwrap"
        /\ coupling.bucketing # None =>
              /\ \A t \in {u \in LookupTimes : u >= 0} :
                    \A k \in 0..(CountOfBuckets - 1) :
                       bucket_for(coupling.bucketing, t) = Some(k)
                          <=> /\ FirstStart + k * SizeOfBucket <= t
                              /\ t <= (FirstStart + (k + 1) * SizeOfBucket) - 1
              /\ \A t \in {u \in LookupTimes : u >= 0} :
                    (t < FirstStart \/ t > Latest)
                       <=> bucket_for(coupling.bucketing, t) = None
              /\ \A t \in DOMAIN coupling.fct.timestamps :
                    Cardinality({k \in 0..(CountOfBuckets - 1) :
                                    bucket_for(coupling.bucketing, t) = Some(k)}) = 1

\* The timestamps have been collected from the tree, whatever followed.
Indexed == coupling.stage \in {"coupling", "filtered", "done", "panic"}

\* The git activity of the file has an entry at commit time t with lines
\* added or deleted.
ChangedAt(f, t) ==
    \E i \in DOMAIN coupling.tree[f].activity :
        /\ coupling.tree[f].activity[i].commit_time = t
        /\ coupling.tree[f].activity[i].lines_added
              + coupling.tree[f].activity[i].lines_deleted > 0

\* The file has loc data with code > 0.
HasCode(f) ==
    coupling.tree[f].loc # None /\ coupling.tree[f].loc[1] > 0

\* Every commit time of the activity of the tree.
ActivityTimes ==
    UNION {{coupling.tree[f].activity[i].commit_time :
               i \in DOMAIN coupling.tree[f].activity} : f \in DOMAIN coupling.tree}

\* C24: the collection records commit time t for file f exactly when f
\* has loc.code > 0 and an activity entry at t with lines added or
\* deleted; a file without loc data, with zero code lines or with only
\* zero-line changes is in neither index; and t is in the set of f
\* exactly when f is in the set of t.
C24_TimestampsCollected ==
    Indexed =>
        /\ DOMAIN coupling.fct.file_changes \subseteq DOMAIN coupling.tree
        /\ DOMAIN coupling.fct.timestamps \subseteq ActivityTimes
        /\ \A f \in DOMAIN coupling.tree :
              /\ f \in DOMAIN coupling.fct.file_changes
                    <=> HasCode(f) /\ \E t \in ActivityTimes : ChangedAt(f, t)
              /\ \A t \in ActivityTimes :
                    /\ (/\ f \in DOMAIN coupling.fct.file_changes
                        /\ t \in coupling.fct.file_changes[f])
                          <=> HasCode(f) /\ ChangedAt(f, t)
                    /\ (/\ f \in DOMAIN coupling.fct.file_changes
                        /\ t \in coupling.fct.file_changes[f])
                          <=> (/\ t \in DOMAIN coupling.fct.timestamps
                               /\ f \in coupling.fct.timestamps[t])

\* A file with changed lines and no loc data is in neither index, and
\* another file of the tree is in both.
C24_Witness ==
    /\ Indexed
    /\ \E f \in DOMAIN coupling.tree :
          /\ coupling.tree[f].loc = None
          /\ \E t \in ActivityTimes :
                /\ ChangedAt(f, t)
                /\ t \in DOMAIN coupling.fct.timestamps
                /\ f \notin coupling.fct.timestamps[t]
          /\ f \notin DOMAIN coupling.fct.file_changes
    /\ DOMAIN coupling.fct.file_changes # {}

\* The sum of activity_bursts(F) over the buckets from k on.
RECURSIVE BurstsFrom(_, _, _)
BurstsFrom(buckets, k, F) ==
    IF k > Len(buckets) THEN 0
    ELSE BurstsIn(buckets, k, F) + BurstsFrom(buckets, k + 1, F)

\* C23: before filtering, each burst of a file F is counted in exactly
\* one bucket, the one that holds the burst's start, wherever the burst's
\* end and its coupling window lie: activity_bursts(F) of a bucket is the
\* number of bursts of F that start in it, every burst starts in exactly
\* one bucket, and the sum of activity_bursts(F) over the buckets is the
\* number of bursts of F.
C23_BurstInOneBucket ==
    AllCoupled =>
       \A F \in ChangedFiles :
          /\ \A b \in BurstsOf(F) :
                Cardinality({k \in DOMAIN coupling.buckets : StartsIn(b, k)}) = 1
          /\ \A k \in DOMAIN coupling.buckets :
                BurstsIn(coupling.buckets, k, F)
                   = Cardinality({b \in BurstsOf(F) : StartsIn(b, k)})
          /\ BurstsFrom(coupling.buckets, 1, F) = Cardinality(BurstsOf(F))

\* A burst of F starts in the first bucket and ends in the second, F has
\* another burst in the second bucket, and each bucket counts one burst.
C23_Witness ==
    /\ AllCoupled
    /\ Len(coupling.buckets) = 2
    /\ \E F \in ChangedFiles :
          /\ \E b \in BurstsOf(F) :
                /\ StartsIn(b, 1)
                /\ b.end >= coupling.buckets[2].bucket_start
          /\ Cardinality(BurstsOf(F)) = 2
          /\ BurstsIn(coupling.buckets, 1, F) = 1
          /\ BurstsIn(coupling.buckets, 2, F) = 1

\* C30: in every coupling bucket, before and after filtering, no file is
\* in its own coupled_files, and for every source file F and coupled file
\* G, 1 <= count(F->G) <= activity_bursts(F).
C30_CountsWithinBursts ==
    coupling.stage \in {"coupling", "filtered", "done"} =>
       \A k \in DOMAIN coupling.buckets :
          \A F \in DOMAIN coupling.buckets[k].couplings :
             /\ coupling.buckets[k].couplings[F].name = F
             /\ F \notin DOMAIN coupling.buckets[k].couplings[F].coupled_files
             /\ \A G \in DOMAIN coupling.buckets[k].couplings[F].coupled_files :
                   /\ 1 <= coupling.buckets[k].couplings[F].coupled_files[G]
                   /\ coupling.buckets[k].couplings[F].coupled_files[G]
                         <= coupling.buckets[k].couplings[F].activity_bursts

\* With a minimum distance of zero, where a file passes the predicate
\* against itself, a filtered bucket holds F with two bursts and a count
\* of one for G.
C30_Witness ==
    /\ coupling.stage = "filtered"
    /\ coupling.config.min_distance = 0
    /\ \E k \in DOMAIN coupling.buckets :
          \E F \in DOMAIN coupling.buckets[k].couplings :
             /\ coupling.buckets[k].couplings[F].activity_bursts = 2
             /\ \E G \in DOMAIN coupling.buckets[k].couplings[F].coupled_files :
                   coupling.buckets[k].couplings[F].coupled_files[G] = 1
             /\ filter_file(coupling.config.min_distance,
                            coupling.config.max_common_roots, F, F)

\* C25: GitFileHistory::new looks no final name up before the whole log
\* has been consumed: while the iterator yields nothing is attributed,
\* every yielded commit is in the rename registry with its renames and
\* deletes, and once the attribution has started the log and the
\* registry do not change.
C25_LookupsAfterTheLog ==
    /\ [](/\ (attr_pos > 0 \/ DOMAIN history_by_file # {}) => pc # "iterating"
          /\ \A e \in OkEntries :
                /\ e.id \in DOMAIN rev_changes
                /\ rev_changes[e.id].files
                      = extend(EmptyMap, file_futures(e.file_changes)))
    /\ [][pc # "iterating" => /\ log_entries' = log_entries
                              /\ rev_changes' = rev_changes]_vars

\* The history is built, and the addition of a by an older commit is
\* stored under b, the name a newer commit of the log gave the file.
C25_Witness ==
    /\ pc = "built"
    /\ "b" \in DOMAIN history_by_file
    /\ \E i \in DOMAIN history_by_file["b"] :
          /\ history_by_file["b"][i].change = "Add"
          /\ \E fc \in Range(EntryOf(history_by_file["b"][i].id).file_changes) :
                fc.file = "a"
          /\ \E e \in OkEntries :
                /\ e.id < history_by_file["b"][i].id
                /\ \E fc \in Range(e.file_changes) :
                      fc.change = "Rename" /\ fc.file = "b"

\* The commits that were registered or named as a parent.
NamedCommits == Yielded \cup UNION {Range(e.parents) : e \in OkEntries}

\* The number of first children followed from commit c to a commit
\* without children, or -1 when the chain leaves the registry or does not
\* end within fuel steps.
RECURSIVE Hops(_, _, _)
Hops(rc, c, fuel) ==
    IF c \notin DOMAIN rc THEN -1
    ELSE IF rc[c].children = <<>> THEN 0
    ELSE IF fuel = 0 THEN -1
    ELSE IF Hops(rc, rc[c].children[1], fuel - 1) < 0 THEN -1
    ELSE Hops(rc, rc[c].children[1], fuel - 1) + 1

\* C29: for every commit c that was registered or named as a parent,
\* final_name(c, p) ends, within as many steps as the registry has
\* entries, and looks up no commit missing from the registry: every id of
\* a child list has its own entry, also when the log was cut short by the
\* since-time and some parents were never registered themselves.
C29_FinalNameEnds ==
    /\ pc # "panic"
    /\ NamedCommits \subseteq DOMAIN rev_changes
    /\ \A c \in DOMAIN rev_changes :
          /\ Range(rev_changes[c].children) \subseteq DOMAIN rev_changes
          /\ Hops(rev_changes, c, Cardinality(DOMAIN rev_changes)) >= 0
          /\ \A p \in {"a", "b"} : ~final_name(rev_changes, c, p).panic

\* The log was cut short, and a parent that was never registered itself
\* leads through its child to the name a newer commit gave the file.
C29_Witness ==
    /\ CutShort
    /\ \E c \in DOMAIN rev_changes \ Yielded :
          /\ c \in NamedCommits
          /\ c > revwalk.walked
          /\ final_name(rev_changes, c, "a").name = Some("b")

\* The nodes of a tree.
RECURSIVE NodesOf(_)
NodesOf(node) ==
    {node} \cup UNION {NodesOf(node.children[i]) : i \in DOMAIN node.children}

\* The trees built so far with new and append_child.
BuiltTrees ==
    IF flare.stage = "tree"
    THEN {flare.tree} \cup {flare.detached[i] : i \in DOMAIN flare.detached}
    ELSE {}

\* C27: in every tree built with new and append_child alone a file node
\* has no children; append_child aborts exactly when its receiver is a
\* file node, and the aborted call leaves the trees as they were; get_in
\* and get_in_mut give None for every path that continues below a file
\* node, whatever the tree was built with.
C27_FileNodesHaveNoChildren ==
    /\ [](flare.stage = "tree" =>
            /\ ~flare.through_children_mut =>
                  \A t \in BuiltTrees : \A n \in NodesOf(t) :
                     n.is_file => n.children = <<>>
            /\ flare.aborted => flare.last # None
            /\ flare.last # None => (flare.last[1].on_file <=> flare.aborted)
            /\ \A t \in BuiltTrees : \A p \in NamePaths(MaxNodes) :
                  \A k \in 0..(Len(p) - 1) :
                     LET found == get_in(t, SubSeq(p, 1, k))
                     IN  (found # None /\ found[1].is_file) =>
                            /\ get_in(t, p) = None
                            /\ get_in_mut(t, p) = None)
    /\ [][(flare.stage = "tree" /\ flare'.aborted) =>
             /\ flare'.tree = flare.tree
             /\ flare'.detached = flare.detached]_vars

\* An append_child on a file node below the root of the tree has aborted,
\* and a lookup that goes on below that file node finds nothing.
C27_Witness ==
    /\ flare.stage = "tree"
    /\ ~flare.through_children_mut
    /\ flare.aborted
    /\ flare.last[1].in_tree
    /\ flare.last[1].path # <<>>
    /\ get_in(flare.tree, flare.last[1].path)[1].is_file
    /\ get_in(flare.tree, flare.last[1].path \o <<"a">>) = None
    /\ Cardinality(NodesOf(flare.tree)) >= 3

\* An entry of the walker that becomes a node.
IsNodeEntry(entry) == entry.kind \in {"dir", "file"}

\* The paths of the nodes the walk has visited: the root, then the entries.
VisitedPaths ==
    <<<<>>>> \o [i \in DOMAIN SelectSeq(SubSeq(flare.walker, 1, flare.pos), IsNodeEntry) |->
                   SelectSeq(SubSeq(flare.walker, 1, flare.pos), IsNodeEntry)[i].path]

\* C26: during the walk every registered calculator is called exactly
\* once per node, in registration order, on the root first and then on
\* each entry in walk order; a node carries a calculator's indicator
\* exactly when the call returned one, so an error leaves only that
\* indicator out; no error of a calculator stops the walk.
C26_CalculatorsRunOncePerNode ==
    flare.stage \in {"walking", "walked", "panic"} =>
        /\ Len(flare.calls) = Len(flare.tics) * Len(VisitedPaths)
        /\ \A k \in DOMAIN flare.calls :
              /\ flare.calls[k].name = flare.tics[((k - 1) % Len(flare.tics)) + 1].name
              /\ flare.calls[k].path = VisitedPaths[((k - 1) \div Len(flare.tics)) + 1]
              /\ get_in(flare.tree, flare.calls[k].path) # None
              /\ flare.calls[k].name \in DOMAIN get_in(flare.tree, flare.calls[k].path)[1].data
                    <=> flare.calls[k].outcome = "some"
        /\ \A i \in DOMAIN flare.tics : flare.tics[i].count = Len(VisitedPaths)
        /\ flare.stage = "panic" => flare.walker[flare.pos].kind = "error"
        /\ flare.stage = "walked" => flare.pos = Len(flare.walker)

\* A walk of a root and three entries with two calculators has ended; the
\* first calculator failed on the root and on the last entry, and the
\* second calculator gave an indicator for both.
C26_Witness ==
    /\ flare.stage = "walked"
    /\ Len(flare.tics) = 2
    /\ Len(flare.calls) = 8
    /\ flare.calls[1].outcome = "err"
    /\ flare.calls[2].outcome = "some"
    /\ flare.calls[7].outcome = "err"
    /\ flare.calls[8].outcome = "some"

=============================================================================
